---------------------------- MODULE Spec2Model ----------------------------
(***************************************************************************)
(* A model of the arpabet crates: the phoneme symbol table                 *)
(* (arpabet_types), and the CMUdict line parser and loader                 *)
(* (arpabet_parser).                                                       *)
(*                                                                         *)
(* A Rust string is modelled as a sequence of characters, each character   *)
(* a one-character TLA+ string, so that the parser's regular expressions,  *)
(* split and case conversions are computed character by character.         *)
(*                                                                         *)
(* A Phoneme is <<"Consonant", c>> or <<"Vowel", v, stress>>.              *)
(***************************************************************************)
EXTENDS Naturals, Integers, Sequences, FiniteSets, TLC

VARIABLES
  entry,       \* which entry point runs: "load_from_str" or "load_from_file"
  src,         \* the lines the input text was written from (history only)
  text,        \* the input text (the &str, or the content of the file)
  pc,          \* position of the load: "call", "read", "check", "done"
  pos,         \* number of characters the reader has consumed
  line_count,  \* read_lines' line_count
  map,         \* the working HashMap<Word, Polyphone> of the load
  result,      \* what the load returned: [tag, line_number, text]
  arpabet,     \* the dictionary of the Arpabet returned by Ok, or NoStore
  tk_pc,       \* position of the symbol-table round trip
  tk_phoneme,  \* the phoneme the round trip starts from
  tk_str,      \* its to_str form
  tk_result,   \* the result of Phoneme::try_from on that form
  st_a,        \* the store the calls are made on (self)
  st_b,        \* the store passed as `other` to combine and merge_from
  st_call,     \* the last call: its name, arguments, and the stores before it
  st_ret,      \* what the last call returned
  st_present,  \* the words inserted or merged in and not removed since
  cm_once,     \* state of the Once that guards ARPABET_CMU_DICT
  cm_cell,     \* the value of ARPABET_CMU_DICT, or NoStore before it is set
  cm_writes,   \* how many times the cell of ARPABET_CMU_DICT has been set
  cm_runs,     \* how many times load_cmudict_lazy has been entered
  cm_thread,   \* per thread: position, calls made, map being built, what it saw
  cg_pc,       \* position of the build script, the compiler and the start-up
  cg_text,     \* the dictionary text the build script includes
  cg_parsed,   \* the store the build script parsed from the text
  cg_code,     \* the entries the build script wrote: key and code
  cg_table,    \* the phf::Map the generated code compiles to
  cg_arpabet,  \* the store from_phf_map makes of that table
  ex_pc,       \* where the examination of one value stands
  ex_in,       \* the vowel or sentence token examined
  ex_out       \* what the functions under examination returned for it

loadVars == <<entry, src, text, pc, pos, line_count, map, result, arpabet>>
tkVars == <<tk_pc, tk_phoneme, tk_str, tk_result>>
stVars == <<st_a, st_b, st_call, st_ret, st_present>>
cmVars == <<cm_once, cm_cell, cm_writes, cm_runs, cm_thread>>
cgVars == <<cg_pc, cg_text, cg_parsed, cg_code, cg_table, cg_arpabet>>
exVars == <<ex_pc, ex_in, ex_out>>
vars == <<entry, src, text, pc, pos, line_count, map, result, arpabet,
          tk_pc, tk_phoneme, tk_str, tk_result,
          st_a, st_b, st_call, st_ret, st_present,
          cm_once, cm_cell, cm_writes, cm_runs, cm_thread,
          cg_pc, cg_text, cg_parsed, cg_code, cg_table, cg_arpabet,
          ex_pc, ex_in, ex_out>>

----------------------------------------------------------------------------
(* Bounds of the model.                                                    *)

\* The greatest number of physical lines of an input text.
MaxLines == 3

----------------------------------------------------------------------------
(* The phoneme model and the symbol table.                                 *)

ALL_CONSONANTS ==
  << <<"Consonant", "B">>,
     <<"Consonant", "CH">>,
     <<"Consonant", "D">>,
     <<"Consonant", "DH">>,
     <<"Consonant", "DX">>,
     <<"Consonant", "EL">>,
     <<"Consonant", "EM">>,
     <<"Consonant", "EN">>,
     <<"Consonant", "F">>,
     <<"Consonant", "G">>,
     <<"Consonant", "HH">>,
     <<"Consonant", "JH">>,
     <<"Consonant", "K">>,
     <<"Consonant", "L">>,
     <<"Consonant", "M">>,
     <<"Consonant", "N">>,
     <<"Consonant", "NG">>,
     <<"Consonant", "NX">>,
     <<"Consonant", "P">>,
     <<"Consonant", "Q">>,
     <<"Consonant", "R">>,
     <<"Consonant", "S">>,
     <<"Consonant", "SH">>,
     <<"Consonant", "T">>,
     <<"Consonant", "TH">>,
     <<"Consonant", "V">>,
     <<"Consonant", "W">>,
     <<"Consonant", "WH">>,
     <<"Consonant", "Y">>,
     <<"Consonant", "Z">>,
     <<"Consonant", "ZH">> >>

ALL_VOWELS ==
  << <<"Vowel", "AA", "UnknownStress">>,
     <<"Vowel", "AA", "NoStress">>,
     <<"Vowel", "AA", "PrimaryStress">>,
     <<"Vowel", "AA", "SecondaryStress">>,
     <<"Vowel", "AE", "UnknownStress">>,
     <<"Vowel", "AE", "NoStress">>,
     <<"Vowel", "AE", "PrimaryStress">>,
     <<"Vowel", "AE", "SecondaryStress">>,
     <<"Vowel", "AH", "UnknownStress">>,
     <<"Vowel", "AH", "NoStress">>,
     <<"Vowel", "AH", "PrimaryStress">>,
     <<"Vowel", "AH", "SecondaryStress">>,
     <<"Vowel", "AO", "UnknownStress">>,
     <<"Vowel", "AO", "NoStress">>,
     <<"Vowel", "AO", "PrimaryStress">>,
     <<"Vowel", "AO", "SecondaryStress">>,
     <<"Vowel", "AW", "UnknownStress">>,
     <<"Vowel", "AW", "NoStress">>,
     <<"Vowel", "AW", "PrimaryStress">>,
     <<"Vowel", "AW", "SecondaryStress">>,
     <<"Vowel", "AX", "UnknownStress">>,
     <<"Vowel", "AX", "NoStress">>,
     <<"Vowel", "AX", "PrimaryStress">>,
     <<"Vowel", "AX", "SecondaryStress">>,
     <<"Vowel", "AXR", "UnknownStress">>,
     <<"Vowel", "AXR", "NoStress">>,
     <<"Vowel", "AXR", "PrimaryStress">>,
     <<"Vowel", "AXR", "SecondaryStress">>,
     <<"Vowel", "AY", "UnknownStress">>,
     <<"Vowel", "AY", "NoStress">>,
     <<"Vowel", "AY", "PrimaryStress">>,
     <<"Vowel", "AY", "SecondaryStress">>,
     <<"Vowel", "EH", "UnknownStress">>,
     <<"Vowel", "EH", "NoStress">>,
     <<"Vowel", "EH", "PrimaryStress">>,
     <<"Vowel", "EH", "SecondaryStress">>,
     <<"Vowel", "ER", "UnknownStress">>,
     <<"Vowel", "ER", "NoStress">>,
     <<"Vowel", "ER", "PrimaryStress">>,
     <<"Vowel", "ER", "SecondaryStress">>,
     <<"Vowel", "EY", "UnknownStress">>,
     <<"Vowel", "EY", "NoStress">>,
     <<"Vowel", "EY", "PrimaryStress">>,
     <<"Vowel", "EY", "SecondaryStress">>,
     <<"Vowel", "IH", "UnknownStress">>,
     <<"Vowel", "IH", "NoStress">>,
     <<"Vowel", "IH", "PrimaryStress">>,
     <<"Vowel", "IH", "SecondaryStress">>,
     <<"Vowel", "IX", "UnknownStress">>,
     <<"Vowel", "IX", "NoStress">>,
     <<"Vowel", "IX", "PrimaryStress">>,
     <<"Vowel", "IX", "SecondaryStress">>,
     <<"Vowel", "IY", "UnknownStress">>,
     <<"Vowel", "IY", "NoStress">>,
     <<"Vowel", "IY", "PrimaryStress">>,
     <<"Vowel", "IY", "SecondaryStress">>,
     <<"Vowel", "OW", "UnknownStress">>,
     <<"Vowel", "OW", "NoStress">>,
     <<"Vowel", "OW", "PrimaryStress">>,
     <<"Vowel", "OW", "SecondaryStress">>,
     <<"Vowel", "OY", "UnknownStress">>,
     <<"Vowel", "OY", "NoStress">>,
     <<"Vowel", "OY", "PrimaryStress">>,
     <<"Vowel", "OY", "SecondaryStress">>,
     <<"Vowel", "UH", "UnknownStress">>,
     <<"Vowel", "UH", "NoStress">>,
     <<"Vowel", "UH", "PrimaryStress">>,
     <<"Vowel", "UH", "SecondaryStress">>,
     <<"Vowel", "UW", "UnknownStress">>,
     <<"Vowel", "UW", "NoStress">>,
     <<"Vowel", "UW", "PrimaryStress">>,
     <<"Vowel", "UW", "SecondaryStress">>,
     <<"Vowel", "UX", "UnknownStress">>,
     <<"Vowel", "UX", "NoStress">>,
     <<"Vowel", "UX", "PrimaryStress">>,
     <<"Vowel", "UX", "SecondaryStress">> >>

PHONEME_MAP ==
     <<"B">> :> <<"Consonant", "B">>
  @@ <<"C", "H">> :> <<"Consonant", "CH">>
  @@ <<"D">> :> <<"Consonant", "D">>
  @@ <<"D", "H">> :> <<"Consonant", "DH">>
  @@ <<"D", "X">> :> <<"Consonant", "DX">>
  @@ <<"E", "L">> :> <<"Consonant", "EL">>
  @@ <<"E", "M">> :> <<"Consonant", "EM">>
  @@ <<"E", "N">> :> <<"Consonant", "EN">>
  @@ <<"F">> :> <<"Consonant", "F">>
  @@ <<"G">> :> <<"Consonant", "G">>
  @@ <<"H", "H">> :> <<"Consonant", "HH">>
  @@ <<"J", "H">> :> <<"Consonant", "JH">>
  @@ <<"K">> :> <<"Consonant", "K">>
  @@ <<"L">> :> <<"Consonant", "L">>
  @@ <<"M">> :> <<"Consonant", "M">>
  @@ <<"N">> :> <<"Consonant", "N">>
  @@ <<"N", "G">> :> <<"Consonant", "NG">>
  @@ <<"N", "X">> :> <<"Consonant", "NX">>
  @@ <<"P">> :> <<"Consonant", "P">>
  @@ <<"Q">> :> <<"Consonant", "Q">>
  @@ <<"R">> :> <<"Consonant", "R">>
  @@ <<"S">> :> <<"Consonant", "S">>
  @@ <<"S", "H">> :> <<"Consonant", "SH">>
  @@ <<"T">> :> <<"Consonant", "T">>
  @@ <<"T", "H">> :> <<"Consonant", "TH">>
  @@ <<"V">> :> <<"Consonant", "V">>
  @@ <<"W">> :> <<"Consonant", "W">>
  @@ <<"W", "H">> :> <<"Consonant", "WH">>
  @@ <<"Y">> :> <<"Consonant", "Y">>
  @@ <<"Z">> :> <<"Consonant", "Z">>
  @@ <<"Z", "H">> :> <<"Consonant", "ZH">>
  @@ <<"A", "A">> :> <<"Vowel", "AA", "UnknownStress">>
  @@ <<"A", "A", "0">> :> <<"Vowel", "AA", "NoStress">>
  @@ <<"A", "A", "1">> :> <<"Vowel", "AA", "PrimaryStress">>
  @@ <<"A", "A", "2">> :> <<"Vowel", "AA", "SecondaryStress">>
  @@ <<"A", "E">> :> <<"Vowel", "AE", "UnknownStress">>
  @@ <<"A", "E", "0">> :> <<"Vowel", "AE", "NoStress">>
  @@ <<"A", "E", "1">> :> <<"Vowel", "AE", "PrimaryStress">>
  @@ <<"A", "E", "2">> :> <<"Vowel", "AE", "SecondaryStress">>
  @@ <<"A", "H">> :> <<"Vowel", "AH", "UnknownStress">>
  @@ <<"A", "H", "0">> :> <<"Vowel", "AH", "NoStress">>
  @@ <<"A", "H", "1">> :> <<"Vowel", "AH", "PrimaryStress">>
  @@ <<"A", "H", "2">> :> <<"Vowel", "AH", "SecondaryStress">>
  @@ <<"A", "O">> :> <<"Vowel", "AO", "UnknownStress">>
  @@ <<"A", "O", "0">> :> <<"Vowel", "AO", "NoStress">>
  @@ <<"A", "O", "1">> :> <<"Vowel", "AO", "PrimaryStress">>
  @@ <<"A", "O", "2">> :> <<"Vowel", "AO", "SecondaryStress">>
  @@ <<"A", "W">> :> <<"Vowel", "AW", "UnknownStress">>
  @@ <<"A", "W", "0">> :> <<"Vowel", "AW", "NoStress">>
  @@ <<"A", "W", "1">> :> <<"Vowel", "AW", "PrimaryStress">>
  @@ <<"A", "W", "2">> :> <<"Vowel", "AW", "SecondaryStress">>
  @@ <<"A", "X">> :> <<"Vowel", "AX", "UnknownStress">>
  @@ <<"A", "X", "0">> :> <<"Vowel", "AX", "NoStress">>
  @@ <<"A", "X", "1">> :> <<"Vowel", "AX", "PrimaryStress">>
  @@ <<"A", "X", "2">> :> <<"Vowel", "AX", "SecondaryStress">>
  @@ <<"A", "X", "R">> :> <<"Vowel", "AXR", "UnknownStress">>
  @@ <<"A", "X", "R", "0">> :> <<"Vowel", "AXR", "NoStress">>
  @@ <<"A", "X", "R", "1">> :> <<"Vowel", "AXR", "PrimaryStress">>
  @@ <<"A", "X", "R", "2">> :> <<"Vowel", "AXR", "SecondaryStress">>
  @@ <<"A", "Y">> :> <<"Vowel", "AY", "UnknownStress">>
  @@ <<"A", "Y", "0">> :> <<"Vowel", "AY", "NoStress">>
  @@ <<"A", "Y", "1">> :> <<"Vowel", "AY", "PrimaryStress">>
  @@ <<"A", "Y", "2">> :> <<"Vowel", "AY", "SecondaryStress">>
  @@ <<"E", "H">> :> <<"Vowel", "EH", "UnknownStress">>
  @@ <<"E", "H", "0">> :> <<"Vowel", "EH", "NoStress">>
  @@ <<"E", "H", "1">> :> <<"Vowel", "EH", "PrimaryStress">>
  @@ <<"E", "H", "2">> :> <<"Vowel", "EH", "SecondaryStress">>
  @@ <<"E", "R">> :> <<"Vowel", "ER", "UnknownStress">>
  @@ <<"E", "R", "0">> :> <<"Vowel", "ER", "NoStress">>
  @@ <<"E", "R", "1">> :> <<"Vowel", "ER", "PrimaryStress">>
  @@ <<"E", "R", "2">> :> <<"Vowel", "ER", "SecondaryStress">>
  @@ <<"E", "Y">> :> <<"Vowel", "EY", "UnknownStress">>
  @@ <<"E", "Y", "0">> :> <<"Vowel", "EY", "NoStress">>
  @@ <<"E", "Y", "1">> :> <<"Vowel", "EY", "PrimaryStress">>
  @@ <<"E", "Y", "2">> :> <<"Vowel", "EY", "SecondaryStress">>
  @@ <<"I", "H">> :> <<"Vowel", "IH", "UnknownStress">>
  @@ <<"I", "H", "0">> :> <<"Vowel", "IH", "NoStress">>
  @@ <<"I", "H", "1">> :> <<"Vowel", "IH", "PrimaryStress">>
  @@ <<"I", "H", "2">> :> <<"Vowel", "IH", "SecondaryStress">>
  @@ <<"I", "X">> :> <<"Vowel", "IX", "UnknownStress">>
  @@ <<"I", "X", "0">> :> <<"Vowel", "IX", "NoStress">>
  @@ <<"I", "X", "1">> :> <<"Vowel", "IX", "PrimaryStress">>
  @@ <<"I", "X", "2">> :> <<"Vowel", "IX", "SecondaryStress">>
  @@ <<"I", "Y">> :> <<"Vowel", "IY", "UnknownStress">>
  @@ <<"I", "Y", "0">> :> <<"Vowel", "IY", "NoStress">>
  @@ <<"I", "Y", "1">> :> <<"Vowel", "IY", "PrimaryStress">>
  @@ <<"I", "Y", "2">> :> <<"Vowel", "IY", "SecondaryStress">>
  @@ <<"O", "W">> :> <<"Vowel", "OW", "UnknownStress">>
  @@ <<"O", "W", "0">> :> <<"Vowel", "OW", "NoStress">>
  @@ <<"O", "W", "1">> :> <<"Vowel", "OW", "PrimaryStress">>
  @@ <<"O", "W", "2">> :> <<"Vowel", "OW", "SecondaryStress">>
  @@ <<"O", "Y">> :> <<"Vowel", "OY", "UnknownStress">>
  @@ <<"O", "Y", "0">> :> <<"Vowel", "OY", "NoStress">>
  @@ <<"O", "Y", "1">> :> <<"Vowel", "OY", "PrimaryStress">>
  @@ <<"O", "Y", "2">> :> <<"Vowel", "OY", "SecondaryStress">>
  @@ <<"U", "H">> :> <<"Vowel", "UH", "UnknownStress">>
  @@ <<"U", "H", "0">> :> <<"Vowel", "UH", "NoStress">>
  @@ <<"U", "H", "1">> :> <<"Vowel", "UH", "PrimaryStress">>
  @@ <<"U", "H", "2">> :> <<"Vowel", "UH", "SecondaryStress">>
  @@ <<"U", "W">> :> <<"Vowel", "UW", "UnknownStress">>
  @@ <<"U", "W", "0">> :> <<"Vowel", "UW", "NoStress">>
  @@ <<"U", "W", "1">> :> <<"Vowel", "UW", "PrimaryStress">>
  @@ <<"U", "W", "2">> :> <<"Vowel", "UW", "SecondaryStress">>
  @@ <<"U", "X">> :> <<"Vowel", "UX", "UnknownStress">>
  @@ <<"U", "X", "0">> :> <<"Vowel", "UX", "NoStress">>
  @@ <<"U", "X", "1">> :> <<"Vowel", "UX", "PrimaryStress">>
  @@ <<"U", "X", "2">> :> <<"Vowel", "UX", "SecondaryStress">>

Consonant_to_str(c) ==
  CASE c = "B" -> <<"B">>
    [] c = "CH" -> <<"C", "H">>
    [] c = "D" -> <<"D">>
    [] c = "DH" -> <<"D", "H">>
    [] c = "DX" -> <<"D", "X">>
    [] c = "EL" -> <<"E", "L">>
    [] c = "EM" -> <<"E", "M">>
    [] c = "EN" -> <<"E", "N">>
    [] c = "F" -> <<"F">>
    [] c = "G" -> <<"G">>
    [] c = "HH" -> <<"H", "H">>
    [] c = "JH" -> <<"J", "H">>
    [] c = "K" -> <<"K">>
    [] c = "L" -> <<"L">>
    [] c = "M" -> <<"M">>
    [] c = "N" -> <<"N">>
    [] c = "NG" -> <<"N", "G">>
    [] c = "NX" -> <<"N", "X">>
    [] c = "P" -> <<"P">>
    [] c = "Q" -> <<"Q">>
    [] c = "R" -> <<"R">>
    [] c = "S" -> <<"S">>
    [] c = "SH" -> <<"S", "H">>
    [] c = "T" -> <<"T">>
    [] c = "TH" -> <<"T", "H">>
    [] c = "V" -> <<"V">>
    [] c = "W" -> <<"W">>
    [] c = "WH" -> <<"W", "H">>
    [] c = "Y" -> <<"Y">>
    [] c = "Z" -> <<"Z">>
    [] c = "ZH" -> <<"Z", "H">>

Vowel_to_str(v, stress) ==
  CASE v = "AA" /\ stress = "UnknownStress" -> <<"A", "A">>
    [] v = "AA" /\ stress = "NoStress" -> <<"A", "A", "0">>
    [] v = "AA" /\ stress = "PrimaryStress" -> <<"A", "A", "1">>
    [] v = "AA" /\ stress = "SecondaryStress" -> <<"A", "A", "2">>
    [] v = "AE" /\ stress = "UnknownStress" -> <<"A", "E">>
    [] v = "AE" /\ stress = "NoStress" -> <<"A", "E", "0">>
    [] v = "AE" /\ stress = "PrimaryStress" -> <<"A", "E", "1">>
    [] v = "AE" /\ stress = "SecondaryStress" -> <<"A", "E", "2">>
    [] v = "AH" /\ stress = "UnknownStress" -> <<"A", "H">>
    [] v = "AH" /\ stress = "NoStress" -> <<"A", "H", "0">>
    [] v = "AH" /\ stress = "PrimaryStress" -> <<"A", "H", "1">>
    [] v = "AH" /\ stress = "SecondaryStress" -> <<"A", "H", "2">>
    [] v = "AO" /\ stress = "UnknownStress" -> <<"A", "O">>
    [] v = "AO" /\ stress = "NoStress" -> <<"A", "O", "0">>
    [] v = "AO" /\ stress = "PrimaryStress" -> <<"A", "O", "1">>
    [] v = "AO" /\ stress = "SecondaryStress" -> <<"A", "O", "2">>
    [] v = "AW" /\ stress = "UnknownStress" -> <<"A", "W">>
    [] v = "AW" /\ stress = "NoStress" -> <<"A", "W", "0">>
    [] v = "AW" /\ stress = "PrimaryStress" -> <<"A", "W", "1">>
    [] v = "AW" /\ stress = "SecondaryStress" -> <<"A", "W", "2">>
    [] v = "AX" /\ stress = "UnknownStress" -> <<"A", "X">>
    [] v = "AX" /\ stress = "NoStress" -> <<"A", "X", "0">>
    [] v = "AX" /\ stress = "PrimaryStress" -> <<"A", "X", "1">>
    [] v = "AX" /\ stress = "SecondaryStress" -> <<"A", "X", "2">>
    [] v = "AXR" /\ stress = "UnknownStress" -> <<"A", "X", "R">>
    [] v = "AXR" /\ stress = "NoStress" -> <<"A", "X", "R", "0">>
    [] v = "AXR" /\ stress = "PrimaryStress" -> <<"A", "X", "R", "1">>
    [] v = "AXR" /\ stress = "SecondaryStress" -> <<"A", "X", "R", "2">>
    [] v = "AY" /\ stress = "UnknownStress" -> <<"A", "Y">>
    [] v = "AY" /\ stress = "NoStress" -> <<"A", "Y", "0">>
    [] v = "AY" /\ stress = "PrimaryStress" -> <<"A", "Y", "1">>
    [] v = "AY" /\ stress = "SecondaryStress" -> <<"A", "Y", "2">>
    [] v = "EH" /\ stress = "UnknownStress" -> <<"E", "H">>
    [] v = "EH" /\ stress = "NoStress" -> <<"E", "H", "0">>
    [] v = "EH" /\ stress = "PrimaryStress" -> <<"E", "H", "1">>
    [] v = "EH" /\ stress = "SecondaryStress" -> <<"E", "H", "2">>
    [] v = "ER" /\ stress = "UnknownStress" -> <<"E", "R">>
    [] v = "ER" /\ stress = "NoStress" -> <<"E", "R", "0">>
    [] v = "ER" /\ stress = "PrimaryStress" -> <<"E", "R", "1">>
    [] v = "ER" /\ stress = "SecondaryStress" -> <<"E", "R", "2">>
    [] v = "EY" /\ stress = "UnknownStress" -> <<"E", "Y">>
    [] v = "EY" /\ stress = "NoStress" -> <<"E", "Y", "0">>
    [] v = "EY" /\ stress = "PrimaryStress" -> <<"E", "Y", "1">>
    [] v = "EY" /\ stress = "SecondaryStress" -> <<"E", "Y", "2">>
    [] v = "IH" /\ stress = "UnknownStress" -> <<"I", "H">>
    [] v = "IH" /\ stress = "NoStress" -> <<"I", "H", "0">>
    [] v = "IH" /\ stress = "PrimaryStress" -> <<"I", "H", "1">>
    [] v = "IH" /\ stress = "SecondaryStress" -> <<"I", "H", "2">>
    [] v = "IX" /\ stress = "UnknownStress" -> <<"I", "X">>
    [] v = "IX" /\ stress = "NoStress" -> <<"I", "X", "0">>
    [] v = "IX" /\ stress = "PrimaryStress" -> <<"I", "X", "1">>
    [] v = "IX" /\ stress = "SecondaryStress" -> <<"I", "X", "2">>
    [] v = "IY" /\ stress = "UnknownStress" -> <<"I", "Y">>
    [] v = "IY" /\ stress = "NoStress" -> <<"I", "Y", "0">>
    [] v = "IY" /\ stress = "PrimaryStress" -> <<"I", "Y", "1">>
    [] v = "IY" /\ stress = "SecondaryStress" -> <<"I", "Y", "2">>
    [] v = "OW" /\ stress = "UnknownStress" -> <<"O", "W">>
    [] v = "OW" /\ stress = "NoStress" -> <<"O", "W", "0">>
    [] v = "OW" /\ stress = "PrimaryStress" -> <<"O", "W", "1">>
    [] v = "OW" /\ stress = "SecondaryStress" -> <<"O", "W", "2">>
    [] v = "OY" /\ stress = "UnknownStress" -> <<"O", "Y">>
    [] v = "OY" /\ stress = "NoStress" -> <<"O", "Y", "0">>
    [] v = "OY" /\ stress = "PrimaryStress" -> <<"O", "Y", "1">>
    [] v = "OY" /\ stress = "SecondaryStress" -> <<"O", "Y", "2">>
    [] v = "UH" /\ stress = "UnknownStress" -> <<"U", "H">>
    [] v = "UH" /\ stress = "NoStress" -> <<"U", "H", "0">>
    [] v = "UH" /\ stress = "PrimaryStress" -> <<"U", "H", "1">>
    [] v = "UH" /\ stress = "SecondaryStress" -> <<"U", "H", "2">>
    [] v = "UW" /\ stress = "UnknownStress" -> <<"U", "W">>
    [] v = "UW" /\ stress = "NoStress" -> <<"U", "W", "0">>
    [] v = "UW" /\ stress = "PrimaryStress" -> <<"U", "W", "1">>
    [] v = "UW" /\ stress = "SecondaryStress" -> <<"U", "W", "2">>
    [] v = "UX" /\ stress = "UnknownStress" -> <<"U", "X">>
    [] v = "UX" /\ stress = "NoStress" -> <<"U", "X", "0">>
    [] v = "UX" /\ stress = "PrimaryStress" -> <<"U", "X", "1">>
    [] v = "UX" /\ stress = "SecondaryStress" -> <<"U", "X", "2">>

\* enum Consonant: each variant and the characters of its identifier.
Consonant_variants ==
  ("B" :> <<"B">>)
    @@ ("CH" :> <<"C", "H">>)
    @@ ("D" :> <<"D">>)
    @@ ("DH" :> <<"D", "H">>)
    @@ ("DX" :> <<"D", "X">>)
    @@ ("EL" :> <<"E", "L">>)
    @@ ("EM" :> <<"E", "M">>)
    @@ ("EN" :> <<"E", "N">>)
    @@ ("F" :> <<"F">>)
    @@ ("G" :> <<"G">>)
    @@ ("HH" :> <<"H", "H">>)
    @@ ("JH" :> <<"J", "H">>)
    @@ ("K" :> <<"K">>)
    @@ ("L" :> <<"L">>)
    @@ ("M" :> <<"M">>)
    @@ ("N" :> <<"N">>)
    @@ ("NG" :> <<"N", "G">>)
    @@ ("NX" :> <<"N", "X">>)
    @@ ("P" :> <<"P">>)
    @@ ("Q" :> <<"Q">>)
    @@ ("R" :> <<"R">>)
    @@ ("S" :> <<"S">>)
    @@ ("SH" :> <<"S", "H">>)
    @@ ("T" :> <<"T">>)
    @@ ("TH" :> <<"T", "H">>)
    @@ ("V" :> <<"V">>)
    @@ ("W" :> <<"W">>)
    @@ ("WH" :> <<"W", "H">>)
    @@ ("Y" :> <<"Y">>)
    @@ ("Z" :> <<"Z">>)
    @@ ("ZH" :> <<"Z", "H">>)

\* enum Vowel: each variant and the characters of its identifier.
Vowel_variants ==
  ("AA" :> <<"A", "A">>)
    @@ ("AE" :> <<"A", "E">>)
    @@ ("AH" :> <<"A", "H">>)
    @@ ("AO" :> <<"A", "O">>)
    @@ ("AW" :> <<"A", "W">>)
    @@ ("AX" :> <<"A", "X">>)
    @@ ("AXR" :> <<"A", "X", "R">>)
    @@ ("AY" :> <<"A", "Y">>)
    @@ ("EH" :> <<"E", "H">>)
    @@ ("ER" :> <<"E", "R">>)
    @@ ("EY" :> <<"E", "Y">>)
    @@ ("IH" :> <<"I", "H">>)
    @@ ("IX" :> <<"I", "X">>)
    @@ ("IY" :> <<"I", "Y">>)
    @@ ("OW" :> <<"O", "W">>)
    @@ ("OY" :> <<"O", "Y">>)
    @@ ("UH" :> <<"U", "H">>)
    @@ ("UW" :> <<"U", "W">>)
    @@ ("UX" :> <<"U", "X">>)

\* enum VowelStress: each variant and the characters of its identifier.
VowelStress_variants ==
  ("UnknownStress" :> <<"U", "n", "k", "n", "o", "w", "n", "S", "t", "r", "e", "s", "s">>)
    @@ ("NoStress" :> <<"N", "o", "S", "t", "r", "e", "s", "s">>)
    @@ ("PrimaryStress" :> <<"P", "r", "i", "m", "a", "r", "y", "S", "t", "r", "e", "s", "s">>)
    @@ ("SecondaryStress" :> <<"S", "e", "c", "o", "n", "d", "a", "r", "y", "S", "t", "r", "e", "s", "s">>)

\* Vowel::to_str_stressless
Vowel_to_str_stressless(v) ==
  CASE v = "AA" -> <<"A", "A">>
    [] v = "AE" -> <<"A", "E">>
    [] v = "AH" -> <<"A", "H">>
    [] v = "AO" -> <<"A", "O">>
    [] v = "AW" -> <<"A", "W">>
    [] v = "AX" -> <<"A", "X">>
    [] v = "AXR" -> <<"A", "X", "R">>
    [] v = "AY" -> <<"A", "Y">>
    [] v = "EH" -> <<"E", "H">>
    [] v = "ER" -> <<"E", "R">>
    [] v = "EY" -> <<"E", "Y">>
    [] v = "IH" -> <<"I", "H">>
    [] v = "IX" -> <<"I", "X">>
    [] v = "IY" -> <<"I", "Y">>
    [] v = "OW" -> <<"O", "W">>
    [] v = "OY" -> <<"O", "Y">>
    [] v = "UH" -> <<"U", "H">>
    [] v = "UW" -> <<"U", "W">>
    [] v = "UX" -> <<"U", "X">>

\* From<Punctuation> for u8
Punctuation_to_u8(punctuation) ==
  CASE punctuation = "StartToken" -> 201
    [] punctuation = "Space" -> 202
    [] punctuation = "Comma" -> 203
    [] punctuation = "Period" -> 204
    [] punctuation = "Question" -> 205
    [] punctuation = "Exclamation" -> 206
    [] punctuation = "Interjection" -> 207
    [] punctuation = "Quote" -> 208
    [] punctuation = "Ellipsis" -> 209
    [] punctuation = "EndToken" -> 254

\* From<Consonant> for u8
Consonant_to_u8(consonant) ==
  CASE consonant = "B" -> 1
    [] consonant = "CH" -> 2
    [] consonant = "D" -> 3
    [] consonant = "DH" -> 4
    [] consonant = "DX" -> 5
    [] consonant = "EL" -> 6
    [] consonant = "EM" -> 7
    [] consonant = "EN" -> 8
    [] consonant = "F" -> 9
    [] consonant = "G" -> 10
    [] consonant = "HH" -> 11
    [] consonant = "JH" -> 12
    [] consonant = "K" -> 13
    [] consonant = "L" -> 14
    [] consonant = "M" -> 15
    [] consonant = "N" -> 16
    [] consonant = "NG" -> 17
    [] consonant = "NX" -> 18
    [] consonant = "P" -> 19
    [] consonant = "Q" -> 20
    [] consonant = "R" -> 21
    [] consonant = "S" -> 22
    [] consonant = "SH" -> 23
    [] consonant = "T" -> 24
    [] consonant = "TH" -> 25
    [] consonant = "V" -> 26
    [] consonant = "W" -> 27
    [] consonant = "WH" -> 28
    [] consonant = "Y" -> 29
    [] consonant = "Z" -> 30
    [] consonant = "ZH" -> 31

\* From<Vowel> for u8
Vowel_to_u8(v, stress) ==
  CASE v = "AA" /\ stress = "UnknownStress" -> 101
    [] v = "AA" /\ stress = "NoStress" -> 102
    [] v = "AA" /\ stress = "PrimaryStress" -> 103
    [] v = "AA" /\ stress = "SecondaryStress" -> 104
    [] v = "AE" /\ stress = "UnknownStress" -> 105
    [] v = "AE" /\ stress = "NoStress" -> 106
    [] v = "AE" /\ stress = "PrimaryStress" -> 107
    [] v = "AE" /\ stress = "SecondaryStress" -> 108
    [] v = "AH" /\ stress = "UnknownStress" -> 109
    [] v = "AH" /\ stress = "NoStress" -> 110
    [] v = "AH" /\ stress = "PrimaryStress" -> 111
    [] v = "AH" /\ stress = "SecondaryStress" -> 112
    [] v = "AO" /\ stress = "UnknownStress" -> 113
    [] v = "AO" /\ stress = "NoStress" -> 114
    [] v = "AO" /\ stress = "PrimaryStress" -> 115
    [] v = "AO" /\ stress = "SecondaryStress" -> 116
    [] v = "AW" /\ stress = "UnknownStress" -> 117
    [] v = "AW" /\ stress = "NoStress" -> 118
    [] v = "AW" /\ stress = "PrimaryStress" -> 119
    [] v = "AW" /\ stress = "SecondaryStress" -> 120
    [] v = "AX" /\ stress = "UnknownStress" -> 121
    [] v = "AX" /\ stress = "NoStress" -> 122
    [] v = "AX" /\ stress = "PrimaryStress" -> 123
    [] v = "AX" /\ stress = "SecondaryStress" -> 124
    [] v = "AXR" /\ stress = "UnknownStress" -> 125
    [] v = "AXR" /\ stress = "NoStress" -> 126
    [] v = "AXR" /\ stress = "PrimaryStress" -> 127
    [] v = "AXR" /\ stress = "SecondaryStress" -> 128
    [] v = "AY" /\ stress = "UnknownStress" -> 129
    [] v = "AY" /\ stress = "NoStress" -> 130
    [] v = "AY" /\ stress = "PrimaryStress" -> 131
    [] v = "AY" /\ stress = "SecondaryStress" -> 132
    [] v = "EH" /\ stress = "UnknownStress" -> 133
    [] v = "EH" /\ stress = "NoStress" -> 134
    [] v = "EH" /\ stress = "PrimaryStress" -> 135
    [] v = "EH" /\ stress = "SecondaryStress" -> 136
    [] v = "ER" /\ stress = "UnknownStress" -> 137
    [] v = "ER" /\ stress = "NoStress" -> 138
    [] v = "ER" /\ stress = "PrimaryStress" -> 139
    [] v = "ER" /\ stress = "SecondaryStress" -> 140
    [] v = "EY" /\ stress = "UnknownStress" -> 141
    [] v = "EY" /\ stress = "NoStress" -> 142
    [] v = "EY" /\ stress = "PrimaryStress" -> 143
    [] v = "EY" /\ stress = "SecondaryStress" -> 144
    [] v = "IH" /\ stress = "UnknownStress" -> 145
    [] v = "IH" /\ stress = "NoStress" -> 146
    [] v = "IH" /\ stress = "PrimaryStress" -> 147
    [] v = "IH" /\ stress = "SecondaryStress" -> 148
    [] v = "IX" /\ stress = "UnknownStress" -> 149
    [] v = "IX" /\ stress = "NoStress" -> 150
    [] v = "IX" /\ stress = "PrimaryStress" -> 151
    [] v = "IX" /\ stress = "SecondaryStress" -> 152
    [] v = "IY" /\ stress = "UnknownStress" -> 153
    [] v = "IY" /\ stress = "NoStress" -> 154
    [] v = "IY" /\ stress = "PrimaryStress" -> 155
    [] v = "IY" /\ stress = "SecondaryStress" -> 156
    [] v = "OW" /\ stress = "UnknownStress" -> 157
    [] v = "OW" /\ stress = "NoStress" -> 158
    [] v = "OW" /\ stress = "PrimaryStress" -> 159
    [] v = "OW" /\ stress = "SecondaryStress" -> 160
    [] v = "OY" /\ stress = "UnknownStress" -> 161
    [] v = "OY" /\ stress = "NoStress" -> 162
    [] v = "OY" /\ stress = "PrimaryStress" -> 163
    [] v = "OY" /\ stress = "SecondaryStress" -> 164
    [] v = "UH" /\ stress = "UnknownStress" -> 165
    [] v = "UH" /\ stress = "NoStress" -> 166
    [] v = "UH" /\ stress = "PrimaryStress" -> 167
    [] v = "UH" /\ stress = "SecondaryStress" -> 168
    [] v = "UW" /\ stress = "UnknownStress" -> 169
    [] v = "UW" /\ stress = "NoStress" -> 170
    [] v = "UW" /\ stress = "PrimaryStress" -> 171
    [] v = "UW" /\ stress = "SecondaryStress" -> 172
    [] v = "UX" /\ stress = "UnknownStress" -> 173
    [] v = "UX" /\ stress = "NoStress" -> 174
    [] v = "UX" /\ stress = "PrimaryStress" -> 175
    [] v = "UX" /\ stress = "SecondaryStress" -> 176

\* constants.rs: ALL_PUNCTUATION
ALL_PUNCTUATION ==
  << <<"Punctuation", "StartToken">>,
     <<"Punctuation", "Space">>,
     <<"Punctuation", "Comma">>,
     <<"Punctuation", "Period">>,
     <<"Punctuation", "Question">>,
     <<"Punctuation", "Exclamation">>,
     <<"Punctuation", "Interjection">>,
     <<"Punctuation", "Quote">>,
     <<"Punctuation", "Ellipsis">>,
     <<"Punctuation", "EndToken">> >>

\* VowelStress::to_i with the unknown stress counted as no stress.
VowelStress_to_i_unknown_zero(stress) ==
  CASE stress = "UnknownStress" -> 0
    [] stress = "NoStress" -> 0
    [] stress = "PrimaryStress" -> 1
    [] stress = "SecondaryStress" -> 2

\* VowelStress::to_i
VowelStress_to_i(stress) ==
  CASE stress = "UnknownStress" -> -1
    [] stress = "NoStress" -> 0
    [] stress = "PrimaryStress" -> 1
    [] stress = "SecondaryStress" -> 2

\* Phoneme::to_str with the stress of a vowel left out.
Phoneme_to_str_stressless(p) ==
  IF p[1] = "Consonant" THEN Consonant_to_str(p[2])
  ELSE Vowel_to_str(p[2], "UnknownStress")

Phoneme_to_str(p) ==
  IF p[1] = "Consonant" THEN Consonant_to_str(p[2]) ELSE Vowel_to_str(p[2], p[3])

\* PHONEME_MAP.get(token): a present phoneme, or absent.
PHONEME_MAP_get(token) ==
  IF token \in DOMAIN PHONEME_MAP
    THEN [present |-> TRUE, phoneme |-> PHONEME_MAP[token]]
    ELSE [present |-> FALSE, phoneme |-> <<>>]

----------------------------------------------------------------------------
(* Characters: classes and case conversion.  The model's alphabet is       *)
(* ASCII; \s is the regex class restricted to space, tab, CR and LF, and   *)
(* \w the class restricted to ASCII letters, digits and underscore.        *)

UpperChars ==
  << "A", "B", "C", "D", "E", "F", "G", "H", "I", "J", "K", "L", "M",
     "N", "O", "P", "Q", "R", "S", "T", "U", "V", "W", "X", "Y", "Z" >>

LowerChars ==
  << "a", "b", "c", "d", "e", "f", "g", "h", "i", "j", "k", "l", "m",
     "n", "o", "p", "q", "r", "s", "t", "u", "v", "w", "x", "y", "z" >>

DigitChars == {"0", "1", "2", "3", "4", "5", "6", "7", "8", "9"}

Range(s) == {s[i] : i \in 1..Len(s)}

SpaceChars == {" ", "\t", "\n", "\r"}

IsSpace(c) == c \in SpaceChars

\* The class [\w\-\(\)\.'] of FILE_REGEX.
WordChars ==
  Range(UpperChars) \cup Range(LowerChars) \cup DigitChars
    \cup {"_", "-", "(", ")", ".", "'"}

IsWordChar(c) == c \in WordChars

UpperOf == [c \in Range(LowerChars) |->
              UpperChars[CHOOSE i \in 1..Len(LowerChars) : LowerChars[i] = c]]

LowerOf == [c \in Range(UpperChars) |->
              LowerChars[CHOOSE i \in 1..Len(UpperChars) : UpperChars[i] = c]]

to_uppercase_char(c) == IF c \in DOMAIN UpperOf THEN UpperOf[c] ELSE c

to_lowercase_char(c) == IF c \in DOMAIN LowerOf THEN LowerOf[c] ELSE c

to_uppercase(s) == [i \in 1..Len(s) |-> to_uppercase_char(s[i])]

to_lowercase(s) == [i \in 1..Len(s) |-> to_lowercase_char(s[i])]

\* The greatest element of a non-empty set of naturals.
MaxOf(S) == CHOOSE n \in S : \A m \in S : m <= n

----------------------------------------------------------------------------
(* Phoneme::try_from: the lookup of a token in PHONEME_MAP.                *)

\* format!("Not a phoneme: '{}'", maybe_phoneme)
NotAPhoneme ==
  <<"N", "o", "t", " ", "a", " ", "p", "h", "o", "n", "e", "m", "e", ":", " ", "'">>

StringParseError(maybe_phoneme) ==
  [tag |-> "StringParseError", phoneme |-> <<>>,
   description |-> NotAPhoneme \o maybe_phoneme \o <<"'">>]

OkPhoneme(p) == [tag |-> "Ok", phoneme |-> p, description |-> <<>>]

NoOutcome == [tag |-> "None", phoneme |-> <<>>, description |-> <<>>]

\* Phoneme::try_from with the token upper-cased before the lookup.
Phoneme_try_from_any_case(maybe_phoneme) ==
  LET got == PHONEME_MAP_get(to_uppercase(maybe_phoneme))
  IN  IF got.present
        THEN OkPhoneme(got.phoneme)
        ELSE StringParseError(maybe_phoneme)

Phoneme_try_from(maybe_phoneme) ==
  LET got == PHONEME_MAP_get(maybe_phoneme)
  IN  IF got.present
        THEN OkPhoneme(got.phoneme)
        ELSE StringParseError(maybe_phoneme)

----------------------------------------------------------------------------
(* The parser's regular expressions, split, and the body of one iteration  *)
(* of read_lines' loop.                                                    *)

\* COMMENT_REGEX without the whitespace after the semicolons: ^;;;
COMMENT_REGEX_is_match_bare(buffer) ==
  /\ Len(buffer) >= 3
  /\ buffer[1] = ";" /\ buffer[2] = ";" /\ buffer[3] = ";"

\* COMMENT_REGEX = ^;;;\s+
COMMENT_REGEX_is_match(buffer) ==
  /\ Len(buffer) >= 4
  /\ buffer[1] = ";" /\ buffer[2] = ";" /\ buffer[3] = ";"
  /\ IsSpace(buffer[4])

\* FILE_REGEX with nothing required after the whitespace that follows the
\* word: ^([\w\-\(\)\.']+)\s+(.*)\s*$ with the whitespace taken first.
FILE_REGEX_captures_any_rest(buffer) ==
  LET n == Len(buffer)
      wordEnd == MaxOf({e \in 0..n : \A i \in 1..e : IsWordChar(buffer[i])})
      spaceEnd == MaxOf({e \in wordEnd..n :
                           \A i \in (wordEnd + 1)..e : IsSpace(buffer[i])})
      start == spaceEnd + 1
      ends == {e \in spaceEnd..n :
                 /\ \A i \in (start + 1)..e : buffer[i] # "\n"
                 /\ \A i \in (e + 1)..n : IsSpace(buffer[i])}
      none == [matched |-> FALSE, g1 |-> <<>>, g2 |-> <<>>]
  IN  IF wordEnd = 0 \/ spaceEnd = wordEnd \/ ends = {}
        THEN none
        ELSE [matched |-> TRUE,
              g1 |-> SubSeq(buffer, 1, wordEnd),
              g2 |-> SubSeq(buffer, start, MaxOf(ends))]

\* FILE_REGEX = ^([\w\-\(\)\.']+)\s+([^\s].*)\s*$
\* Group 1 is the longest prefix of word characters; \s+ takes the whole run
\* of whitespace after it (the next character must be [^\s]); the greedy .*
\* of group 2 runs as far as it can, never over a line feed, while what
\* follows it is whitespace up to the end of the text.
FILE_REGEX_captures(buffer) ==
  LET n == Len(buffer)
      wordEnd == MaxOf({e \in 0..n : \A i \in 1..e : IsWordChar(buffer[i])})
      spaceEnd == MaxOf({e \in wordEnd..n :
                           \A i \in (wordEnd + 1)..e : IsSpace(buffer[i])})
      start == spaceEnd + 1
      ends == {e \in start..n :
                 /\ \A i \in (start + 1)..e : buffer[i] # "\n"
                 /\ \A i \in (e + 1)..n : IsSpace(buffer[i])}
      none == [matched |-> FALSE, g1 |-> <<>>, g2 |-> <<>>]
  IN  IF wordEnd = 0 \/ spaceEnd = wordEnd \/ start > n \/ ends = {}
        THEN none
        ELSE [matched |-> TRUE,
              g1 |-> SubSeq(buffer, 1, wordEnd),
              g2 |-> SubSeq(buffer, start, MaxOf(ends))]

\* str::split_whitespace in the place of split(" "): the pieces between
\* runs of whitespace, no empty piece kept.
RECURSIVE split_whitespace(_)
split_whitespace(s) ==
  IF s = <<>> THEN <<>>
  ELSE IF IsSpace(s[1]) THEN split_whitespace(Tail(s))
  ELSE LET stop == MaxOf({e \in 1..Len(s) : \A i \in 1..e : ~IsSpace(s[i])})
       IN  <<SubSeq(s, 1, stop)>>
             \o split_whitespace(SubSeq(s, stop + 1, Len(s)))

\* str::split(" "): the pieces between single spaces, empty pieces kept.
RECURSIVE split(_)
split(s) ==
  IF \E i \in 1..Len(s) : s[i] = " "
    THEN LET k == CHOOSE i \in 1..Len(s) :
                    s[i] = " " /\ \A j \in 1..(i - 1) : s[j] # " "
         IN  <<SubSeq(s, 1, k - 1)>> \o split(SubSeq(s, k + 1, Len(s)))
    ELSE <<s>>

\* The for loop over phoneme_tokens, with the phonemes pushed to the front
\* of the vector instead of its back.
resolve_tokens_reversed(phoneme_tokens) ==
  IF \E i \in 1..Len(phoneme_tokens) : ~PHONEME_MAP_get(phoneme_tokens[i]).present
    THEN [ok |-> FALSE, phonemes |-> <<>>]
    ELSE [ok |-> TRUE,
          phonemes |-> [i \in 1..Len(phoneme_tokens) |->
                          PHONEME_MAP_get(
                            phoneme_tokens[Len(phoneme_tokens) + 1 - i]).phoneme]]

\* The for loop over phoneme_tokens, with a token that is no key passed
\* over instead of failing the line.
resolve_tokens_skips_unknown(phoneme_tokens) ==
  LET known == SelectSeq(phoneme_tokens, LAMBDA t : PHONEME_MAP_get(t).present)
  IN  [ok |-> TRUE,
       phonemes |-> [i \in 1..Len(known) |-> PHONEME_MAP_get(known[i]).phoneme]]

\* The for loop over phoneme_tokens: every token resolved through
\* PHONEME_MAP, or failure at the first token that is not a key.
resolve_tokens(phoneme_tokens) ==
  IF \E i \in 1..Len(phoneme_tokens) : ~PHONEME_MAP_get(phoneme_tokens[i]).present
    THEN [ok |-> FALSE, phonemes |-> <<>>]
    ELSE [ok |-> TRUE,
          phonemes |-> [i \in 1..Len(phoneme_tokens) |->
                          PHONEME_MAP_get(phoneme_tokens[i]).phoneme]]

\* What becomes of a line, and in branch the place of the loop that decided
\* it: the comment check, the failed match of FILE_REGEX, the check of
\* phoneme_tokens.is_empty(), the lookup of a token, or map.insert.
LineComment ==
  [kind |-> "comment", word |-> <<>>, phonemes |-> <<>>, branch |-> "comment"]

LineInvalid(branch) ==
  [kind |-> "invalid", word |-> <<>>, phonemes |-> <<>>, branch |-> branch]

LineEntry(word, phonemes) ==
  [kind |-> "entry", word |-> word, phonemes |-> phonemes, branch |-> "insert"]

\* process_entry with the tokens looked up as they are written, not
\* upper-cased.
process_entry_no_upper(buffer) ==
  LET caps == FILE_REGEX_captures(buffer) IN
  IF ~caps.matched THEN LineInvalid("pattern")
  ELSE
    LET word == to_lowercase(caps.g1)
        phoneme_tokens == split(caps.g2)
        resolved == resolve_tokens(phoneme_tokens)
    IN  IF phoneme_tokens = <<>> THEN LineInvalid("no_tokens")
        ELSE IF ~resolved.ok THEN LineInvalid("token")
        ELSE LineEntry(word, resolved.phonemes)

\* The match on FILE_REGEX.captures(&buffer) in the loop of read_lines: the
\* line fails with InvalidFormat, or yields word -> phonemes to insert.
process_entry(buffer) ==
  LET caps == FILE_REGEX_captures(buffer) IN
  IF ~caps.matched THEN LineInvalid("pattern")
  ELSE
    LET word == to_lowercase(caps.g1)
        pieces == split(caps.g2)
        phoneme_tokens == [i \in 1..Len(pieces) |-> to_uppercase(pieces[i])]
        resolved == resolve_tokens(phoneme_tokens)
    IN  IF phoneme_tokens = <<>> THEN LineInvalid("no_tokens")
        ELSE IF ~resolved.ok THEN LineInvalid("token")
        ELSE LineEntry(word, resolved.phonemes)

\* process_line with a line of nothing but whitespace skipped like a
\* comment.
process_line_skips_blank(buffer) ==
  IF COMMENT_REGEX_is_match(buffer) \/ \A i \in 1..Len(buffer) : IsSpace(buffer[i])
    THEN LineComment
    ELSE process_entry(buffer)

\* What one iteration of the loop of read_lines does with the line in
\* buffer: skip it as a comment, fail with InvalidFormat, or insert
\* word -> phonemes.
process_line(buffer) ==
  IF COMMENT_REGEX_is_match(buffer) THEN LineComment ELSE process_entry(buffer)

\* BufRead::read_line from position p of t: the characters up to and
\* including the next line feed, or up to the end of t; empty at the end.
read_line(t, p) ==
  LET feeds == {i \in (p + 1)..Len(t) : t[i] = "\n"}
      stop == IF feeds = {} THEN Len(t)
              ELSE CHOOSE i \in feeds : \A j \in feeds : i <= j
  IN  SubSeq(t, p + 1, stop)

\* HashMap::insert, with a key that is present keeping its value.
map_insert_keeps_first(m, k, v) ==
  [x \in (DOMAIN m) \cup {k} |-> IF x \in DOMAIN m THEN m[x] ELSE v]

\* HashMap::insert on the working map.
map_insert(m, k, v) ==
  [x \in (DOMAIN m) \cup {k} |-> IF x = k THEN v ELSE m[x]]

EmptyMap == [x \in {} |-> <<>>]

----------------------------------------------------------------------------
(* The dictionary store, as far as the loader uses it.                     *)

NoStore == [some |-> FALSE, dictionary |-> EmptyMap]

\* Arpabet::from_map: the store owns the map as it is.
from_map(m) == [some |-> TRUE, dictionary |-> m]

Absent == [present |-> FALSE, value |-> <<>>]

\* get_polyphone with the word lower-cased before the lookup.
get_polyphone_lowercases(a, word) ==
  IF to_lowercase(word) \in DOMAIN a.dictionary
    THEN [present |-> TRUE, value |-> a.dictionary[to_lowercase(word)]]
    ELSE Absent

\* Arpabet::get_polyphone: a clone of the stored polyphone, or absent.
get_polyphone(a, word) ==
  IF word \in DOMAIN a.dictionary
    THEN [present |-> TRUE, value |-> a.dictionary[word]]
    ELSE Absent

\* get_polyphone_str with the strings collected in reverse.
get_polyphone_str_reversed(a, word) ==
  IF word \in DOMAIN a.dictionary
    THEN [present |-> TRUE,
          value |-> [i \in 1..Len(a.dictionary[word]) |->
                       Phoneme_to_str(
                         a.dictionary[word][Len(a.dictionary[word]) + 1 - i])]]
    ELSE Absent

get_polyphone_str(a, word) ==
  IF word \in DOMAIN a.dictionary
    THEN [present |-> TRUE,
          value |-> [i \in 1..Len(a.dictionary[word]) |->
                       Phoneme_to_str(a.dictionary[word][i])]]
    ELSE Absent

\* Arpabet::new: an empty dictionary.
Arpabet_new == from_map(EmptyMap)

Present(v) == [present |-> TRUE, value |-> v]

\* HashMap::get
map_get(m, k) == IF k \in DOMAIN m THEN Present(m[k]) ELSE Absent

\* HashMap::remove
map_remove(m, k) == [x \in (DOMAIN m) \ {k} |-> m[x]]

\* get_polyphone_ref: the reference to the stored polyphone, read.
get_polyphone_ref(a, word) == map_get(a.dictionary, word)

\* Arpabet::insert returning the value it has just stored.
Arpabet_insert_returns_new(a, key, value) ==
  [store |-> from_map(map_insert(a.dictionary, key, value)),
   ret |-> Present(value)]

\* Arpabet::insert refusing an empty value.
Arpabet_insert_validates(a, key, value) ==
  IF value = <<>>
    THEN [store |-> a, ret |-> Absent]
    ELSE [store |-> from_map(map_insert(a.dictionary, key, value)),
          ret |-> map_get(a.dictionary, key)]

\* Arpabet::insert: HashMap::insert, which returns the old value.
Arpabet_insert(a, key, value) ==
  [store |-> from_map(map_insert(a.dictionary, key, value)),
   ret |-> map_get(a.dictionary, key)]

\* Arpabet::remove emptying the dictionary.
Arpabet_remove_clears(a, key) ==
  [store |-> from_map(EmptyMap), ret |-> map_get(a.dictionary, key)]

\* Arpabet::remove leaving the entry where it is.
Arpabet_remove_keeps(a, key) ==
  [store |-> a, ret |-> map_get(a.dictionary, key)]

\* Arpabet::remove: HashMap::remove, which returns the removed value.
Arpabet_remove(a, key) ==
  [store |-> from_map(map_remove(a.dictionary, key)),
   ret |-> map_get(a.dictionary, key)]

\* for (k, v) in other.iter() { m.insert(k.clone(), v.clone()); }
\* The iteration order of a HashMap is not specified; the keys of other
\* are distinct, so every order gives the same map.
RECURSIVE insert_all(_, _)
insert_all(m, other) ==
  IF DOMAIN other = {}
    THEN m
    ELSE LET k == CHOOSE x \in DOMAIN other : TRUE
         IN  insert_all(map_insert(m, k, other[k]), map_remove(other, k))

\* combine with the entries of self inserted over those of other.
Arpabet_combine_self_wins(a, other) ==
  from_map(insert_all(other.dictionary, a.dictionary))

\* Arpabet::combine: a clone of self's dictionary, other's entries inserted.
Arpabet_combine(a, other) ==
  LET merged == a.dictionary
  IN  from_map(insert_all(merged, other.dictionary))

\* merge_from with self's dictionary replaced by other's.
Arpabet_merge_from_replaces(a, other) == from_map(other.dictionary)

\* Arpabet::merge_from: other's entries inserted into self's dictionary.
Arpabet_merge_from(a, other) ==
  from_map(insert_all(a.dictionary, other.dictionary))

\* Arpabet::len
Arpabet_len(a) == Cardinality(DOMAIN a.dictionary)

\* Arpabet::keys: the keys of the HashMap, each once, in any order.
Arpabet_keys(a) ==
  LET n == Cardinality(DOMAIN a.dictionary)
  IN  {ks \in [1..n -> DOMAIN a.dictionary] :
         \A i, j \in 1..n : ks[i] = ks[j] => i = j}

\* from_phf_map with the last phoneme of each value left out.
from_phf_map_drops_last(t) ==
  from_map([k \in DOMAIN t |-> SubSeq(t[k], 1, Len(t[k]) - 1)])

\* Arpabet::from_phf_map: a new HashMap, and for each (k, v) of the table
\* insert(k.to_string(), v.to_vec()).
from_phf_map(t) ==
  LET hashmap == EmptyMap
  IN  from_map(insert_all(hashmap, t))

----------------------------------------------------------------------------
(* Results of a load.                                                      *)

NoResult == [tag |-> "None", line_number |-> 0, text |-> <<>>, cause |-> "none"]
ResultOk == [tag |-> "Ok", line_number |-> 0, text |-> <<>>, cause |-> "none"]
ErrEmptyFile ==
  [tag |-> "EmptyFile", line_number |-> 0, text |-> <<>>, cause |-> "none"]
\* From<io::Error>: ArpabetError::Io(err), err kept as the cause.
ErrIo(err) == [tag |-> "Io", line_number |-> 0, text |-> <<>>, cause |-> err]
ErrInvalidFormat(n, t) ==
  [tag |-> "InvalidFormat", line_number |-> n, text |-> t, cause |-> "none"]

----------------------------------------------------------------------------
(* The input texts.  A text is written from at most MaxLines lines; every  *)
(* line but the last ends with a line feed, the last one may.              *)

SrcEntry(word, sep, toks, tsep, trail) ==
  [kind |-> "entry", word |-> word, sep |-> sep, toks |-> toks,
   tsep |-> tsep, trail |-> trail]

SrcOther(chars) ==
  [kind |-> "other", word |-> chars, sep |-> <<>>, toks |-> <<>>,
   tsep |-> <<>>, trail |-> <<>>]

RECURSIVE Join(_, _)
Join(toks, tsep) ==
  IF toks = <<>> THEN <<>>
  ELSE IF Len(toks) = 1 THEN toks[1]
  ELSE toks[1] \o tsep \o Join(Tail(toks), tsep)

\* The characters of a line, without its line feed.
Render(d) == d.word \o d.sep \o Join(d.toks, d.tsep) \o d.trail

TwoSpaces == <<" ", " ">>
OneSpace == <<" ">>

\* TEST  T EH1 S T
SrcUpper ==
  SrcEntry(<<"T", "E", "S", "T">>, TwoSpaces,
           << <<"T">>, <<"E", "H", "1">>, <<"S">>, <<"T">> >>, OneSpace, <<>>)

\* Test  t eh1 s t   (the word in mixed case, the tokens in lower case)
SrcLower ==
  SrcEntry(<<"T", "e", "s", "t">>, TwoSpaces,
           << <<"t">>, <<"e", "h", "1">>, <<"s">>, <<"t">> >>, OneSpace, <<>>)

\* test  T AH0 S T   (the same word once more, another pronunciation)
SrcAgain ==
  SrcEntry(<<"t", "e", "s", "t">>, TwoSpaces,
           << <<"T">>, <<"A", "H", "0">>, <<"S">>, <<"T">> >>, OneSpace, <<>>)

\* o-Y<TAB>oy2 T     (another word, a tab after it)
SrcMixed ==
  SrcEntry(<<"o", "-", "Y">>, <<"\t">>, << <<"o", "y", "2">>, <<"T">> >>,
           OneSpace, <<>>)

\* SrcUpper followed by trailing whitespace.
SrcTrailing(t) == [SrcUpper EXCEPT !.trail = t]

\* TEST  T  EH1  S  T  (two spaces between the tokens)
SrcWideGap == [SrcUpper EXCEPT !.tsep = TwoSpaces]

\* test  T ZZ        (ZZ is no phoneme)
SrcBadToken ==
  SrcEntry(<<"t", "e", "s", "t">>, TwoSpaces, << <<"T">>, <<"Z", "Z">> >>,
           OneSpace, <<>>)

\* ;;; c
SrcComment == SrcOther(<<";", ";", ";", " ", "c">>)
\* ;;;               (a comment only when a line feed follows)
SrcBareSemis == SrcOther(<<";", ";", ";">>)
SrcBlank == SrcOther(<<>>)
SrcSpaces == SrcOther(<<" ", " ">>)
\* WAT followed by four spaces (test_load_from_str_error)
SrcWordOnly == SrcOther(<<"W", "A", "T", " ", " ", " ", " ">>)

\* ;;;<TAB>c         (a tab after the semicolons)
SrcCommentTab == SrcOther(<<";", ";", ";", "\t", "c">>)
\* ;;;c              (no whitespace after the semicolons)
SrcSemisWord == SrcOther(<<";", ";", ";", "c">>)
\* TEST  T   EH1   S   T  (three spaces between the tokens)
SrcWiderGap == [SrcUpper EXCEPT !.tsep = <<" ", " ", " ">>]
\* TEST  T<TAB>EH1<TAB>S<TAB>T  (a tab between the tokens)
SrcTabGap == [SrcUpper EXCEPT !.tsep = <<"\t">>]

\* The lines a text is written from, by name.
Catalogue ==
  {"Upper", "Lower", "Again", "Mixed", "TrailingSpace", "TrailingTab",
   "TrailingCr", "WideGap", "BadToken", "Comment", "BareSemis", "Blank",
   "Spaces", "WordOnly"}

Describe(name) ==
  CASE name = "Upper" -> SrcUpper
    [] name = "Lower" -> SrcLower
    [] name = "Again" -> SrcAgain
    [] name = "Mixed" -> SrcMixed
    [] name = "TrailingSpace" -> SrcTrailing(<<" ">>)
    [] name = "TrailingTab" -> SrcTrailing(<<"\t">>)
    [] name = "TrailingCr" -> SrcTrailing(<<"\r">>)
    [] name = "WideGap" -> SrcWideGap
    [] name = "BadToken" -> SrcBadToken
    [] name = "Comment" -> SrcComment
    [] name = "BareSemis" -> SrcBareSemis
    [] name = "Blank" -> SrcBlank
    [] name = "Spaces" -> SrcSpaces
    [] name = "WordOnly" -> SrcWordOnly
    [] name = "CommentTab" -> SrcCommentTab
    [] name = "SemisWord" -> SrcSemisWord
    [] name = "WiderGap" -> SrcWiderGap
    [] name = "TabGap" -> SrcTabGap

\* The characters of the line called name, without its line feed.
Chars(name) == Render(Describe(name))

\* The texts of at most max lines out of names; a text whose last line
\* has no characters ends with a line feed.
SourcesUpTo(names, max) ==
  {s \in [lines : UNION {[1..n -> names] : n \in 0..max},
          terminated : BOOLEAN] :
     /\ (s.lines = <<>> => ~s.terminated)
     /\ (s.lines # <<>> /\ Chars(s.lines[Len(s.lines)]) = <<>> => s.terminated)}

SourcesFrom(names) == SourcesUpTo(names, MaxLines)

Sources == SourcesFrom(Catalogue)

\* The lines that show how the loop tells comments, entries and rejected
\* lines apart.
LineCatalogue ==
  {"Upper", "Comment", "CommentTab", "BareSemis", "SemisWord", "WideGap",
   "WiderGap", "TabGap", "WordOnly", "TrailingCr"}

LineSources == SourcesFrom(LineCatalogue)

RECURSIVE RenderLines(_, _)
RenderLines(lines, terminated) ==
  IF lines = <<>> THEN <<>>
  ELSE Chars(lines[1])
         \o (IF Len(lines) > 1 \/ terminated THEN <<"\n">> ELSE <<>>)
         \o RenderLines(Tail(lines), terminated)

RenderText(s) == RenderLines(s.lines, s.terminated)

----------------------------------------------------------------------------
(* The load: load_from_str / load_from_file, and read_lines.               *)

TkIdle ==
  /\ tk_pc = "idle"
  /\ tk_phoneme = <<>>
  /\ tk_str = <<>>
  /\ tk_result = NoOutcome

NoPrev == [op |-> "none", word |-> <<>>, present |-> FALSE]

NoCall ==
  [op |-> "none", word |-> <<>>, polyphone |-> <<>>,
   a |-> NoStore, b |-> NoStore, prev |-> NoPrev]

StIdle ==
  /\ st_a = NoStore
  /\ st_b = NoStore
  /\ st_call = NoCall
  /\ st_ret = Absent
  /\ st_present = {}

CmIdle ==
  /\ cm_once = "INCOMPLETE"
  /\ cm_cell = NoStore
  /\ cm_writes = 0
  /\ cm_runs = 0
  /\ cm_thread = <<>>

CgIdle ==
  /\ cg_pc = "idle"
  /\ cg_text = <<>>
  /\ cg_parsed = NoStore
  /\ cg_code = EmptyMap
  /\ cg_table = EmptyMap
  /\ cg_arpabet = NoStore

ExIdle ==
  /\ ex_pc = "idle"
  /\ ex_in = <<>>
  /\ ex_out = <<>>

\* The state before a load of the text of src.
InitLoadOf(sources) ==
  /\ entry \in {"load_from_str", "load_from_file"}
  /\ src \in sources
  /\ text = RenderText(src)
  /\ pc = "call"
  /\ pos = 0
  /\ line_count = 1
  /\ map = EmptyMap
  /\ result = NoResult
  /\ arpabet = NoStore
  /\ TkIdle
  /\ StIdle
  /\ CmIdle
  /\ CgIdle
  /\ ExIdle

InitLoad == InitLoadOf(Sources)

InitLines == InitLoadOf(LineSources)

\* load_from_str: a reader over the bytes of the text cannot fail.
CallFromStr ==
  /\ pc = "call" /\ entry = "load_from_str"
  /\ pc' = "read"
  /\ UNCHANGED <<entry, src, text, pos, line_count, map, result, arpabet>>
  /\ UNCHANGED <<tkVars, stVars, cmVars, cgVars, exVars>>

\* load_from_file: File::open succeeds.
OpenFile ==
  /\ pc = "call" /\ entry = "load_from_file"
  /\ pc' = "read"
  /\ UNCHANGED <<entry, src, text, pos, line_count, map, result, arpabet>>
  /\ UNCHANGED <<tkVars, stVars, cmVars, cgVars, exVars>>

\* load_from_file: File::open fails, and ? returns the error as Io.
OpenFileFails ==
  /\ pc = "call" /\ entry = "load_from_file"
  /\ pc' = "done"
  /\ result' = ErrIo("NotFound")
  /\ UNCHANGED <<entry, src, text, pos, line_count, map, arpabet>>
  /\ UNCHANGED <<tkVars, stVars, cmVars, cgVars, exVars>>

\* ReadFails with the error taken for the end of the input.
ReadFailsAsEnd ==
  /\ pc = "read" /\ entry = "load_from_file"
  /\ pc' = "check"
  /\ UNCHANGED <<entry, src, text, pos, line_count, map, result, arpabet>>
  /\ UNCHANGED <<tkVars, stVars, cmVars, cgVars, exVars>>

\* reader.read_line fails (a file only), and ? returns the error as Io.
ReadFails ==
  /\ pc = "read" /\ entry = "load_from_file"
  /\ pc' = "done"
  /\ result' = ErrIo("InvalidData")
  /\ UNCHANGED <<entry, src, text, pos, line_count, map, arpabet>>
  /\ UNCHANGED <<tkVars, stVars, cmVars, cgVars, exVars>>

\* read_line returns 0: the loop ends and read_lines returns Ok(()).
ReadEnd ==
  /\ pc = "read"
  /\ read_line(text, pos) = <<>>
  /\ pc' = "check"
  /\ UNCHANGED <<entry, src, text, pos, line_count, map, result, arpabet>>
  /\ UNCHANGED <<tkVars, stVars, cmVars, cgVars, exVars>>

\* ReadComment with the line counter left as it is.
ReadCommentNoCount ==
  /\ pc = "read"
  /\ LET buffer == read_line(text, pos) IN
       /\ buffer # <<>>
       /\ process_line(buffer).kind = "comment"
       /\ pos' = pos + Len(buffer)
  /\ UNCHANGED <<entry, src, text, pc, line_count, map, result, arpabet>>
  /\ UNCHANGED <<tkVars, stVars, cmVars, cgVars, exVars>>

\* One iteration of the loop on a comment line.
ReadComment ==
  /\ pc = "read"
  /\ LET buffer == read_line(text, pos) IN
       /\ buffer # <<>>
       /\ process_line(buffer).kind = "comment"
       /\ pos' = pos + Len(buffer)
       /\ line_count' = line_count + 1
  /\ UNCHANGED <<entry, src, text, pc, map, result, arpabet>>
  /\ UNCHANGED <<tkVars, stVars, cmVars, cgVars, exVars>>

\* One iteration of the loop on a line that yields an entry.
ReadEntry ==
  /\ pc = "read"
  /\ LET buffer == read_line(text, pos)
         line == process_line(buffer)
     IN  /\ buffer # <<>>
         /\ line.kind = "entry"
         /\ map' = map_insert(map, line.word, line.phonemes)
         /\ pos' = pos + Len(buffer)
         /\ line_count' = line_count + 1
  /\ UNCHANGED <<entry, src, text, pc, result, arpabet>>
  /\ UNCHANGED <<tkVars, stVars, cmVars, cgVars, exVars>>

\* ReadInvalid with the rejected line passed over and the loop going on.
ReadInvalidSkips ==
  /\ pc = "read"
  /\ LET buffer == read_line(text, pos) IN
       /\ buffer # <<>>
       /\ process_line(buffer).kind = "invalid"
       /\ pos' = pos + Len(buffer)
       /\ line_count' = line_count + 1
  /\ UNCHANGED <<entry, src, text, pc, map, result, arpabet>>
  /\ UNCHANGED <<tkVars, stVars, cmVars, cgVars, exVars>>

\* ReadInvalid with the line reported without its line terminator.
ReadInvalidTrimmed ==
  /\ pc = "read"
  /\ LET buffer == read_line(text, pos)
         content == SelectSeq(buffer, LAMBDA c : c \notin {"\n", "\r"})
     IN  /\ buffer # <<>>
         /\ process_line(buffer).kind = "invalid"
         /\ result' = ErrInvalidFormat(line_count, content)
         /\ pc' = "done"
  /\ UNCHANGED <<entry, src, text, pos, line_count, map, arpabet>>
  /\ UNCHANGED <<tkVars, stVars, cmVars, cgVars, exVars>>

\* One iteration of the loop on a line that is rejected: read_lines
\* returns InvalidFormat, and the ? of the entry point returns it.
ReadInvalid ==
  /\ pc = "read"
  /\ LET buffer == read_line(text, pos) IN
       /\ buffer # <<>>
       /\ process_line(buffer).kind = "invalid"
       /\ result' = ErrInvalidFormat(line_count, buffer)
       /\ pc' = "done"
  /\ UNCHANGED <<entry, src, text, pos, line_count, map, arpabet>>
  /\ UNCHANGED <<tkVars, stVars, cmVars, cgVars, exVars>>

\* map.is_empty(): Err(EmptyFile).
ReturnEmptyFile ==
  /\ pc = "check"
  /\ DOMAIN map = {}
  /\ result' = ErrEmptyFile
  /\ pc' = "done"
  /\ UNCHANGED <<entry, src, text, pos, line_count, map, arpabet>>
  /\ UNCHANGED <<tkVars, stVars, cmVars, cgVars, exVars>>

\* ReturnOk without the test of map.is_empty().
ReturnOkUnchecked ==
  /\ pc = "check"
  /\ result' = ResultOk
  /\ arpabet' = from_map(map)
  /\ pc' = "done"
  /\ UNCHANGED <<entry, src, text, pos, line_count, map>>
  /\ UNCHANGED <<tkVars, stVars, cmVars, cgVars, exVars>>

\* Otherwise Ok(Arpabet::from_map(map)).
ReturnOk ==
  /\ pc = "check"
  /\ DOMAIN map # {}
  /\ result' = ResultOk
  /\ arpabet' = from_map(map)
  /\ pc' = "done"
  /\ UNCHANGED <<entry, src, text, pos, line_count, map>>
  /\ UNCHANGED <<tkVars, stVars, cmVars, cgVars, exVars>>

ZZZZZ == <<"Z", "Z", "Z", "Z", "Z">>

\* The words looked up on a loaded store: its keys, their upper-case and
\* capitalised spellings, and the word of test_load_cmudict.
Queries(a) ==
  DOMAIN a.dictionary
    \cup {to_uppercase(k) : k \in DOMAIN a.dictionary}
    \cup {<<to_uppercase_char(k[1])>> \o Tail(k) : k \in DOMAIN a.dictionary}
    \cup {ZZZZZ}

\* get_polyphone on the store the load returned.
GetPolyphone ==
  /\ pc = "done"
  /\ result = ResultOk
  /\ \E w \in Queries(arpabet) :
       /\ st_call' = [NoCall EXCEPT !.op = "get_polyphone", !.word = w]
       /\ st_ret' = get_polyphone(arpabet, w)
  /\ pc' = "looked"
  /\ UNCHANGED <<entry, src, text, pos, line_count, map, result, arpabet>>
  /\ UNCHANGED <<st_a, st_b, st_present>>
  /\ UNCHANGED <<tkVars, cmVars, cgVars, exVars>>

zzzzz == to_lowercase(ZZZZZ)

\* insert of an empty polyphone on the store the load returned.
InsertEmpty ==
  /\ pc = "done"
  /\ result = ResultOk
  /\ st_call' = [NoCall EXCEPT !.op = "insert", !.word = zzzzz, !.a = arpabet]
  /\ st_ret' = Arpabet_insert(arpabet, zzzzz, <<>>).ret
  /\ arpabet' = Arpabet_insert(arpabet, zzzzz, <<>>).store
  /\ pc' = "inserted"
  /\ UNCHANGED <<entry, src, text, pos, line_count, map, result>>
  /\ UNCHANGED <<st_a, st_b, st_present>>
  /\ UNCHANGED <<tkVars, cmVars, cgVars, exVars>>

NextLoad ==
  \/ CallFromStr
  \/ OpenFile
  \/ OpenFileFails
  \/ ReadFails
  \/ ReadEnd
  \/ ReadComment
  \/ ReadEntry
  \/ ReadInvalid
  \/ ReturnEmptyFile
  \/ ReturnOk
  \/ GetPolyphone
  \/ InsertEmpty

SpecLoad == InitLoad /\ [][NextLoad]_vars

\* The same load, of the texts of LineSources.
SpecLines == InitLines /\ [][NextLoad]_vars

----------------------------------------------------------------------------
(* The symbol-table round trip: to_str, then Phoneme::try_from.            *)

LoadIdle ==
  /\ entry = "load_from_str"
  /\ src = [lines |-> <<>>, terminated |-> FALSE]
  /\ text = <<>>
  /\ pc = "idle"
  /\ pos = 0
  /\ line_count = 1
  /\ map = EmptyMap
  /\ result = NoResult
  /\ arpabet = NoStore

AllPhonemes == Range(ALL_CONSONANTS) \cup Range(ALL_VOWELS)

InitTable ==
  /\ LoadIdle
  /\ StIdle
  /\ CmIdle
  /\ CgIdle
  /\ ExIdle
  /\ tk_pc = "start"
  /\ tk_phoneme \in AllPhonemes
  /\ tk_str = <<>>
  /\ tk_result = NoOutcome

ToStr ==
  /\ tk_pc = "start"
  /\ tk_str' = Phoneme_to_str(tk_phoneme)
  /\ tk_pc' = "str"
  /\ UNCHANGED <<tk_phoneme, tk_result>>
  /\ UNCHANGED <<loadVars, stVars, cmVars, cgVars, exVars>>

TryFrom ==
  /\ tk_pc = "str"
  /\ tk_result' = Phoneme_try_from(tk_str)
  /\ tk_pc' = "done"
  /\ UNCHANGED <<tk_phoneme, tk_str>>
  /\ UNCHANGED <<loadVars, stVars, cmVars, cgVars, exVars>>

NextTable == ToStr \/ TryFrom

SpecTable == InitTable /\ [][NextTable]_vars

----------------------------------------------------------------------------
(* Phoneme::try_from on arbitrary tokens: the keys of the table, their     *)
(* lower-case and capitalised spellings, keys with a character added or    *)
(* taken away, and the empty string.                                       *)

TableKeys == DOMAIN PHONEME_MAP

Capitalised(s) ==
  IF s = <<>> THEN <<>> ELSE <<s[1]>> \o to_lowercase(SubSeq(s, 2, Len(s)))

Tokens ==
  TableKeys
    \cup {to_lowercase(k) : k \in TableKeys}
    \cup {Capitalised(k) : k \in TableKeys}
    \cup {k \o <<" ">> : k \in TableKeys}
    \cup {SubSeq(k, 1, Len(k) - 1) : k \in TableKeys}
    \cup {<<>>, <<"Z", "Z">>, <<"3">>}

InitToken ==
  /\ LoadIdle
  /\ StIdle
  /\ CmIdle
  /\ CgIdle
  /\ ExIdle
  /\ tk_pc = "token"
  /\ tk_phoneme = <<>>
  /\ tk_str \in Tokens
  /\ tk_result = NoOutcome

TryFromToken ==
  /\ tk_pc = "token"
  /\ tk_result' = Phoneme_try_from(tk_str)
  /\ tk_pc' = "parsed"
  /\ UNCHANGED <<tk_phoneme, tk_str>>
  /\ UNCHANGED <<loadVars, stVars, cmVars, cgVars, exVars>>

NextToken == TryFromToken

SpecToken == InitToken /\ [][NextToken]_vars

----------------------------------------------------------------------------
(* The store: calls on an Arpabet made by Arpabet::new, with a second      *)
(* store to combine with and merge from.  The words and polyphones are     *)
(* those of the tests of the store.                                        *)

foo == <<"f", "o", "o">>
bar == <<"b", "a", "r">>
baz == <<"b", "a", "z">>
FOO == <<"F", "O", "O">>

F_UW1 == <<<<"Consonant", "F">>, <<"Vowel", "UW", "PrimaryStress">>>>
B_UW1 == <<<<"Consonant", "B">>, <<"Vowel", "UW", "PrimaryStress">>>>
B_AA1_R ==
  <<<<"Consonant", "B">>, <<"Vowel", "AA", "PrimaryStress">>, <<"Consonant", "R">>>>
B_AE1_Z ==
  <<<<"Consonant", "B">>, <<"Vowel", "AE", "PrimaryStress">>, <<"Consonant", "Z">>>>

StoreWords == {foo, bar, baz}

QueryWords == StoreWords \cup {FOO}

Polyphones == {F_UW1, B_AA1_R}

\* The stores passed as `other`: empty, the b of tests::combine, and one
\* with a single word.
OtherStores ==
  {from_map(EmptyMap),
   from_map(map_insert(map_insert(EmptyMap, foo, B_UW1), baz, B_AE1_Z)),
   from_map(map_insert(EmptyMap, bar, F_UW1))}

Call(op, w, p) ==
  [op |-> op, word |-> w, polyphone |-> p, a |-> st_a, b |-> st_b,
   prev |-> [op |-> st_call.op, word |-> st_call.word,
             present |-> st_call.op \in {"insert", "remove"} /\ st_ret.present]]

InitStore ==
  /\ LoadIdle
  /\ TkIdle
  /\ CmIdle
  /\ CgIdle
  /\ ExIdle
  /\ st_a = Arpabet_new
  /\ st_b \in OtherStores
  /\ st_call = [NoCall EXCEPT !.op = "new"]
  /\ st_ret = Absent
  /\ st_present = {}

Insert(w, p) ==
  /\ st_call' = Call("insert", w, p)
  /\ st_a' = Arpabet_insert(st_a, w, p).store
  /\ st_ret' = Arpabet_insert(st_a, w, p).ret
  /\ st_present' = st_present \cup {w}
  /\ UNCHANGED st_b
  /\ UNCHANGED <<loadVars, tkVars, cmVars, cgVars, exVars>>

Remove(w) ==
  /\ st_call' = Call("remove", w, <<>>)
  /\ st_a' = Arpabet_remove(st_a, w).store
  /\ st_ret' = Arpabet_remove(st_a, w).ret
  /\ st_present' = st_present \ {w}
  /\ UNCHANGED st_b
  /\ UNCHANGED <<loadVars, tkVars, cmVars, cgVars, exVars>>

Combine ==
  /\ st_call' = Call("combine", <<>>, <<>>)
  /\ st_ret' = Arpabet_combine(st_a, st_b)
  /\ UNCHANGED <<st_a, st_b, st_present>>
  /\ UNCHANGED <<loadVars, tkVars, cmVars, cgVars, exVars>>

MergeFrom ==
  /\ st_call' = Call("merge_from", <<>>, <<>>)
  /\ st_a' = Arpabet_merge_from(st_a, st_b)
  /\ st_ret' = Absent
  /\ st_present' = st_present \cup DOMAIN st_b.dictionary
  /\ UNCHANGED st_b
  /\ UNCHANGED <<loadVars, tkVars, cmVars, cgVars, exVars>>

\* The three lookups of one word, as the tests make them side by side.
Lookups(w) ==
  /\ st_call' = Call("lookups", w, <<>>)
  /\ st_ret' = [get_polyphone |-> get_polyphone(st_a, w),
                get_polyphone_ref |-> get_polyphone_ref(st_a, w),
                get_polyphone_str |-> get_polyphone_str(st_a, w)]
  /\ UNCHANGED <<st_a, st_b, st_present>>
  /\ UNCHANGED <<loadVars, tkVars, cmVars, cgVars, exVars>>

Keys ==
  /\ st_call' = Call("keys", <<>>, <<>>)
  /\ st_ret' \in Arpabet_keys(st_a)
  /\ UNCHANGED <<st_a, st_b, st_present>>
  /\ UNCHANGED <<loadVars, tkVars, cmVars, cgVars, exVars>>

LenCall ==
  /\ st_call' = Call("len", <<>>, <<>>)
  /\ st_ret' = Arpabet_len(st_a)
  /\ UNCHANGED <<st_a, st_b, st_present>>
  /\ UNCHANGED <<loadVars, tkVars, cmVars, cgVars, exVars>>

NextStore ==
  \/ \E w \in StoreWords, p \in Polyphones : Insert(w, p)
  \/ \E w \in StoreWords : Remove(w)
  \/ Combine
  \/ MergeFrom
  \/ \E w \in QueryWords : Lookups(w)
  \/ Keys
  \/ LenCall

SpecStore == InitStore /\ [][NextStore]_vars

----------------------------------------------------------------------------
(* load_cmudict called from several threads.  ARPABET_CMU_DICT is a        *)
(* lazy_static: a cell and a Once; the first deref runs load_cmudict_lazy  *)
(* under Once::call_once, every other deref waits for it or finds it done. *)

MaxThreads == 2
MaxCalls == 2

Threads == 1..MaxThreads

yep == <<"y", "e", "p">>
game == <<"g", "a", "m", "e">>

\* The entries of the generated table that the tests name.
CMU_DICT ==
  map_insert(
    map_insert(EmptyMap, yep,
               <<<<"Consonant", "Y">>, <<"Vowel", "EH", "PrimaryStress">>,
                 <<"Consonant", "P">>>>),
    game,
    <<<<"Consonant", "G">>, <<"Vowel", "EY", "PrimaryStress">>,
      <<"Consonant", "M">>>>)

NoRef == [version |-> 0, store |-> NoStore]

NewThread ==
  [pc |-> "idle", calls |-> 0, waited |-> FALSE, building |-> EmptyMap,
   ref |-> NoRef, seen |-> <<>>]

InitCmudict ==
  /\ LoadIdle
  /\ TkIdle
  /\ StIdle
  /\ CgIdle
  /\ ExIdle
  /\ cm_once = "INCOMPLETE"
  /\ cm_cell = NoStore
  /\ cm_writes = 0
  /\ cm_runs = 0
  /\ cm_thread = [t \in Threads |-> NewThread]

CmUnchanged == UNCHANGED <<loadVars, tkVars, stVars, cgVars, exVars>>

\* load_cmudict: &ARPABET_CMU_DICT derefs the lazy static.
Deref(t) ==
  /\ cm_thread[t].pc = "idle"
  /\ cm_thread[t].calls < MaxCalls
  /\ cm_thread' = [cm_thread EXCEPT ![t].pc = "call_once"]
  /\ UNCHANGED <<cm_once, cm_cell, cm_writes, cm_runs>>
  /\ CmUnchanged

\* call_once that also starts the initializer while another is running.
OnceBeginUnguarded(t) ==
  /\ cm_thread[t].pc = "call_once"
  /\ cm_once \in {"INCOMPLETE", "RUNNING"}
  /\ cm_once' = "RUNNING"
  /\ cm_runs' = cm_runs + 1
  /\ cm_thread' = [cm_thread EXCEPT ![t].pc = "init", ![t].building = EmptyMap]
  /\ UNCHANGED <<cm_cell, cm_writes>>
  /\ CmUnchanged

\* call_once finds the Once incomplete and takes it in one atomic step:
\* this thread runs load_cmudict_lazy.
OnceBegin(t) ==
  /\ cm_thread[t].pc = "call_once"
  /\ cm_once = "INCOMPLETE"
  /\ cm_once' = "RUNNING"
  /\ cm_runs' = cm_runs + 1
  /\ cm_thread' = [cm_thread EXCEPT ![t].pc = "init", ![t].building = EmptyMap]
  /\ UNCHANGED <<cm_cell, cm_writes>>
  /\ CmUnchanged

\* call_once finds the initializer running in another thread and blocks.
OnceWait(t) ==
  /\ cm_thread[t].pc = "call_once"
  /\ cm_once = "RUNNING"
  /\ cm_thread' = [cm_thread EXCEPT ![t].pc = "waiting", ![t].waited = TRUE]
  /\ UNCHANGED <<cm_once, cm_cell, cm_writes, cm_runs>>
  /\ CmUnchanged

\* call_once finds the Once complete, at once or after waiting.
OnceDone(t) ==
  /\ cm_thread[t].pc \in {"call_once", "waiting"}
  /\ cm_once = "COMPLETE"
  /\ cm_thread' = [cm_thread EXCEPT ![t].pc = "read"]
  /\ UNCHANGED <<cm_once, cm_cell, cm_writes, cm_runs>>
  /\ CmUnchanged

\* One iteration of the loop of from_phf_map in the initializer.
InitInsert(t) ==
  /\ cm_thread[t].pc = "init"
  /\ \E k \in DOMAIN CMU_DICT \ DOMAIN cm_thread[t].building :
       cm_thread' = [cm_thread EXCEPT
                       ![t].building = map_insert(@, k, CMU_DICT[k])]
  /\ UNCHANGED <<cm_once, cm_cell, cm_writes, cm_runs>>
  /\ CmUnchanged

\* The loop is over: the initializer's closure sets the cell.
InitSet(t) ==
  /\ cm_thread[t].pc = "init"
  /\ DOMAIN cm_thread[t].building = DOMAIN CMU_DICT
  /\ cm_cell' = from_map(cm_thread[t].building)
  /\ cm_writes' = cm_writes + 1
  /\ cm_thread' = [cm_thread EXCEPT ![t].pc = "set", ![t].building = EmptyMap]
  /\ UNCHANGED <<cm_once, cm_runs>>
  /\ CmUnchanged

\* call_once marks the Once complete and wakes the waiters.
OnceComplete(t) ==
  /\ cm_thread[t].pc = "set"
  /\ cm_once' = "COMPLETE"
  /\ cm_thread' = [cm_thread EXCEPT ![t].pc = "read"]
  /\ UNCHANGED <<cm_cell, cm_writes, cm_runs>>
  /\ CmUnchanged

\* load_cmudict returns the reference to the value in the cell.
Return(t) ==
  /\ cm_thread[t].pc = "read"
  /\ cm_thread' = [cm_thread EXCEPT
                     ![t].pc = "holding",
                     ![t].ref = [version |-> cm_writes, store |-> cm_cell]]
  /\ UNCHANGED <<cm_once, cm_cell, cm_writes, cm_runs>>
  /\ CmUnchanged

\* The caller looks a word up through the reference it holds; the
\* reference reads the cell as it is now.
LookupYep(t) ==
  /\ cm_thread[t].pc = "holding"
  /\ cm_thread' = [cm_thread EXCEPT
                     ![t].pc = "idle",
                     ![t].calls = @ + 1,
                     ![t].seen = Append(@,
                       [version |-> cm_thread[t].ref.version,
                        store |-> cm_thread[t].ref.store,
                        runs |-> cm_runs,
                        yep |-> get_polyphone_str(cm_cell, yep)])]
  /\ UNCHANGED <<cm_once, cm_cell, cm_writes, cm_runs>>
  /\ CmUnchanged

NextCmudict ==
  \E t \in Threads :
    \/ Deref(t)
    \/ OnceBegin(t)
    \/ OnceWait(t)
    \/ OnceDone(t)
    \/ InitInsert(t)
    \/ InitSet(t)
    \/ OnceComplete(t)
    \/ Return(t)
    \/ LookupYep(t)

SpecCmudict == InitCmudict /\ [][NextCmudict]_vars

----------------------------------------------------------------------------
(* The generated table: the build script parses the dictionary text,       *)
(* writes one phf entry per word with the code of its phonemes, the        *)
(* compiler turns the entries into the phf::Map, and from_phf_map makes    *)
(* the store of it.                                                        *)

MaxEntries == 2

\* YOSHI  Y OW1 SH IY0   (the entry of test_cmudict_codegen_entries)
SrcYoshi ==
  SrcEntry(<<"Y", "O", "S", "H", "I">>, TwoSpaces,
           << <<"Y">>, <<"O", "W", "1">>, <<"S", "H">>, <<"I", "Y", "0">> >>,
           OneSpace, <<>>)

CodegenLines == {SrcUpper, SrcAgain, SrcMixed, SrcYoshi, SrcComment}

RECURSIVE RenderAll(_)
RenderAll(ls) ==
  IF ls = <<>> THEN <<>> ELSE Render(ls[1]) \o <<"\n">> \o RenderAll(Tail(ls))

CodegenTexts ==
  {RenderAll(ls) : ls \in UNION {[1..n -> CodegenLines] : n \in 1..MaxEntries}}

\* read_lines_from with a word that is in the map already keeping its
\* phonemes.
RECURSIVE read_lines_from_first_wins(_, _, _)
read_lines_from_first_wins(t, p, m) ==
  LET buffer == read_line(t, p)
      line == process_line(buffer)
  IN  IF buffer = <<>> THEN [ok |-> TRUE, map |-> m]
      ELSE IF line.kind = "comment"
        THEN read_lines_from_first_wins(t, p + Len(buffer), m)
      ELSE IF line.kind = "invalid"
        THEN [ok |-> FALSE, map |-> m]
      ELSE read_lines_from_first_wins(
             t, p + Len(buffer),
             IF line.word \in DOMAIN m THEN m
             ELSE map_insert(m, line.word, line.phonemes))

\* read_lines from position p of t with the working map m, run to its end.
RECURSIVE read_lines_from(_, _, _)
read_lines_from(t, p, m) ==
  LET buffer == read_line(t, p)
      line == process_line(buffer)
  IN  IF buffer = <<>> THEN [ok |-> TRUE, map |-> m]
      ELSE IF line.kind = "comment"
        THEN read_lines_from(t, p + Len(buffer), m)
      ELSE IF line.kind = "invalid"
        THEN [ok |-> FALSE, map |-> m]
      ELSE read_lines_from(t, p + Len(buffer),
                           map_insert(m, line.word, line.phonemes))

\* load_from_str, run to its end: the store, or no store on an error.
load_from_str(t) ==
  LET read == read_lines_from(t, 0, EmptyMap)
  IN  IF read.ok /\ DOMAIN read.map # {} THEN from_map(read.map) ELSE NoStore

\* Vowel::get_stress
Vowel_get_stress(p) == p[3]

\* The name the build script writes for the stress of a vowel.
stress_name(stress) ==
  CASE stress = "UnknownStress" ->
         <<"U", "n", "k", "n", "o", "w", "n", "S", "t", "r", "e", "s", "s">>
    [] stress = "NoStress" -> <<"N", "o", "S", "t", "r", "e", "s", "s">>
    [] stress = "PrimaryStress" ->
         <<"P", "r", "i", "m", "a", "r", "y", "S", "t", "r", "e", "s", "s">>
    [] stress = "SecondaryStress" ->
         <<"S", "e", "c", "o", "n", "d", "a", "r", "y", "S", "t", "r", "e", "s", "s">>

\* phoneme_code with every vowel written with VowelStress::NoStress.
phoneme_code_no_stress(p) ==
  IF p[1] = "Consonant"
    THEN [enum |-> "Consonant", variant |-> Consonant_to_str(p[2]),
          stress |-> <<>>]
    ELSE [enum |-> "Vowel", variant |-> Vowel_to_str_stressless(p[2]),
          stress |-> stress_name("NoStress")]

\* The code written for one phoneme:
\*   Phoneme::Consonant(Consonant::{to_str})
\*   Phoneme::Vowel(Vowel::{to_str_stressless}(VowelStress::{name}))
phoneme_code(p) ==
  IF p[1] = "Consonant"
    THEN [enum |-> "Consonant", variant |-> Consonant_to_str(p[2]),
          stress |-> <<>>]
    ELSE [enum |-> "Vowel", variant |-> Vowel_to_str_stressless(p[2]),
          stress |-> stress_name(Vowel_get_stress(p))]

\* The code of a polyphone: &[ code, code, ... ]
polyphone_code(polyphone) ==
  [i \in 1..Len(polyphone) |-> phoneme_code(polyphone[i])]

\* A key as phf_codegen writes it, with {:?}: a string literal.
RECURSIVE escape_debug(_)
escape_debug(w) ==
  IF w = <<>> THEN <<>>
  ELSE (IF w[1] \in {"\"", "\\"} THEN <<"\\", w[1]>> ELSE <<w[1]>>)
         \o escape_debug(Tail(w))

str_debug(w) == <<"\"">> \o escape_debug(w) \o <<"\"">>

\* The string a literal denotes.
RECURSIVE unescape(_)
unescape(l) ==
  IF l = <<>> THEN <<>>
  ELSE IF l[1] = "\\" /\ Len(l) > 1
    THEN <<l[2]>> \o unescape(SubSeq(l, 3, Len(l)))
  ELSE <<l[1]>> \o unescape(Tail(l))

parse_str_literal(l) == unescape(SubSeq(l, 2, Len(l) - 1))

\* The variant of an enum that an identifier names, if there is one.
resolve(variants, ident) ==
  IF \E v \in DOMAIN variants : variants[v] = ident
    THEN [ok |-> TRUE, variant |-> CHOOSE v \in DOMAIN variants : variants[v] = ident]
    ELSE [ok |-> FALSE, variant |-> ""]

\* The phoneme the code of one phoneme compiles to.
compile_phoneme(code) ==
  IF code.enum = "Consonant"
    THEN LET c == resolve(Consonant_variants, code.variant)
         IN  [ok |-> c.ok, phoneme |-> <<"Consonant", c.variant>>]
    ELSE LET v == resolve(Vowel_variants, code.variant)
             st == resolve(VowelStress_variants, code.stress)
         IN  [ok |-> v.ok /\ st.ok, phoneme |-> <<"Vowel", v.variant, st.variant>>]

compiles(codes) == \A i \in 1..Len(codes) : compile_phoneme(codes[i]).ok

compile_polyphone(codes) ==
  [i \in 1..Len(codes) |-> compile_phoneme(codes[i]).phoneme]

InitCodegen ==
  /\ LoadIdle
  /\ TkIdle
  /\ StIdle
  /\ CmIdle
  /\ ExIdle
  /\ cg_pc = "start"
  /\ cg_text \in CodegenTexts
  /\ cg_parsed = NoStore
  /\ cg_code = EmptyMap
  /\ cg_table = EmptyMap
  /\ cg_arpabet = NoStore

CgUnchanged == UNCHANGED <<loadVars, tkVars, stVars, cmVars, exVars>>

\* build.rs, CMUDICT: load_from_str(CMU_DICT_TEXT) is Ok.
BuildParse ==
  /\ cg_pc = "start"
  /\ load_from_str(cg_text).some
  /\ cg_parsed' = load_from_str(cg_text)
  /\ cg_pc' = "parsed"
  /\ UNCHANGED <<cg_text, cg_code, cg_table, cg_arpabet>>
  /\ CgUnchanged

\* build.rs, CMUDICT: load_from_str is an error and expect panics.
BuildPanics ==
  /\ cg_pc = "start"
  /\ ~load_from_str(cg_text).some
  /\ cg_pc' = "panicked"
  /\ UNCHANGED <<cg_text, cg_parsed, cg_code, cg_table, cg_arpabet>>
  /\ CgUnchanged

\* build.rs, main: one builder.entry(key, code) for each key of CMUDICT.
BuildGenerate ==
  /\ cg_pc = "parsed"
  /\ cg_code' =
       [l \in {str_debug(k) : k \in DOMAIN cg_parsed.dictionary} |->
          polyphone_code(get_polyphone(cg_parsed, parse_str_literal(l)).value)]
  /\ cg_pc' = "generated"
  /\ UNCHANGED <<cg_text, cg_parsed, cg_table, cg_arpabet>>
  /\ CgUnchanged

\* The compiler on the generated file: the static phf::Map.
Compile ==
  /\ cg_pc = "generated"
  /\ \A l \in DOMAIN cg_code : compiles(cg_code[l])
  /\ cg_table' =
       [k \in {parse_str_literal(l) : l \in DOMAIN cg_code} |->
          compile_polyphone(cg_code[str_debug(k)])]
  /\ cg_pc' = "compiled"
  /\ UNCHANGED <<cg_text, cg_parsed, cg_code, cg_arpabet>>
  /\ CgUnchanged

\* load_cmudict_lazy: Arpabet::from_phf_map on the table.
Materialize ==
  /\ cg_pc = "compiled"
  /\ cg_arpabet' = from_phf_map(cg_table)
  /\ cg_pc' = "materialized"
  /\ UNCHANGED <<cg_text, cg_parsed, cg_code, cg_table>>
  /\ CgUnchanged

\* An insert on a store made by from_phf_map.
MaterializedInsert(w, p) ==
  /\ cg_pc = "materialized"
  /\ cg_arpabet' = Arpabet_insert(cg_arpabet, w, p).store
  /\ cg_pc' = "changed"
  /\ UNCHANGED <<cg_text, cg_parsed, cg_code, cg_table>>
  /\ CgUnchanged

\* A remove on a store made by from_phf_map.
MaterializedRemove(w) ==
  /\ cg_pc = "materialized"
  /\ cg_arpabet' = Arpabet_remove(cg_arpabet, w).store
  /\ cg_pc' = "changed"
  /\ UNCHANGED <<cg_text, cg_parsed, cg_code, cg_table>>
  /\ CgUnchanged

NextCodegen ==
  \/ BuildParse
  \/ BuildPanics
  \/ BuildGenerate
  \/ Compile
  \/ Materialize
  \/ \E w \in DOMAIN cg_arpabet.dictionary \cup {foo}, p \in Polyphones :
       MaterializedInsert(w, p)
  \/ \E w \in DOMAIN cg_arpabet.dictionary : MaterializedRemove(w)

SpecCodegen == InitCodegen /\ [][NextCodegen]_vars

----------------------------------------------------------------------------
(* The vowel names: Vowel::to_str, to_str_stressless, get_stress, and      *)
(* VowelStress::to_i.                                                      *)

ExUnchanged == UNCHANGED <<loadVars, tkVars, stVars, cmVars, cgVars>>

NoNames == [to_str |-> <<>>, to_str_stressless |-> <<>>]

InitVowel ==
  /\ LoadIdle
  /\ TkIdle
  /\ StIdle
  /\ CmIdle
  /\ CgIdle
  /\ ex_pc = "start"
  /\ ex_in \in Range(ALL_VOWELS)
  /\ ex_out = NoNames

\* vowel.to_str() and vowel.to_str_stressless()
VowelNames ==
  /\ ex_pc = "start"
  /\ ex_out' = [to_str |-> Vowel_to_str(ex_in[2], ex_in[3]),
                to_str_stressless |-> Vowel_to_str_stressless(ex_in[2])]
  /\ ex_pc' = "named"
  /\ UNCHANGED ex_in
  /\ ExUnchanged

\* vowel.get_stress() and, on what it returned, to_i()
VowelStress ==
  /\ ex_pc = "named"
  /\ ex_out' = [to_str |-> ex_out.to_str,
                to_str_stressless |-> ex_out.to_str_stressless,
                get_stress |-> Vowel_get_stress(ex_in),
                to_i |-> VowelStress_to_i(Vowel_get_stress(ex_in))]
  /\ ex_pc' = "stressed"
  /\ UNCHANGED ex_in
  /\ ExUnchanged

NextVowel == VowelNames \/ VowelStress

SpecVowel == InitVowel /\ [][NextVowel]_vars

----------------------------------------------------------------------------
(* The numeric encoding: From<SentenceToken>, From<Consonant>,             *)
(* From<Vowel> and From<Punctuation> for u8.                               *)

U8 == 0 .. 255

\* SentenceToken::Phoneme(p) and SentenceToken::Punctuation(p)
SentenceToken_Phoneme(p) == <<"Phoneme", p>>

SentenceToken_Punctuation(p) == <<"Punctuation", p[2]>>

SentenceTokens ==
  {SentenceToken_Phoneme(p) : p \in AllPhonemes}
    \cup {SentenceToken_Punctuation(p) : p \in Range(ALL_PUNCTUATION)}

\* From<SentenceToken> for u8 with a vowel's stress dropped.
SentenceToken_to_u8_unstressed(sentence_token) ==
  IF sentence_token[1] = "Phoneme"
  THEN IF sentence_token[2][1] = "Consonant"
       THEN Consonant_to_u8(sentence_token[2][2]) % 256
       ELSE Vowel_to_u8(sentence_token[2][2], "UnknownStress") % 256
  ELSE Punctuation_to_u8(sentence_token[2]) % 256

\* From<SentenceToken> for u8 with the vowels placed right after the
\* consonants.
SentenceToken_to_u8_packed(sentence_token) ==
  IF sentence_token[1] = "Phoneme"
  THEN IF sentence_token[2][1] = "Consonant"
       THEN Consonant_to_u8(sentence_token[2][2]) % 256
       ELSE (Vowel_to_u8(sentence_token[2][2], sentence_token[2][3]) - 100)
              % 256
  ELSE Punctuation_to_u8(sentence_token[2]) % 256

SentenceToken_to_u8(sentence_token) ==
  IF sentence_token[1] = "Phoneme"
  THEN IF sentence_token[2][1] = "Consonant"
       THEN Consonant_to_u8(sentence_token[2][2]) % 256
       ELSE Vowel_to_u8(sentence_token[2][2], sentence_token[2][3]) % 256
  ELSE Punctuation_to_u8(sentence_token[2]) % 256

InitEncode ==
  /\ LoadIdle
  /\ TkIdle
  /\ StIdle
  /\ CmIdle
  /\ CgIdle
  /\ ex_pc = "start"
  /\ ex_in \in SentenceTokens
  /\ ex_out = <<>>

\* u8::from(sentence_token)
Encode ==
  /\ ex_pc = "start"
  /\ ex_out' = <<SentenceToken_to_u8(ex_in)>>
  /\ ex_pc' = "encoded"
  /\ UNCHANGED ex_in
  /\ ExUnchanged

\* u8::from(sentence_token) again: the conversion keeps no state.
EncodeAgain ==
  /\ ex_pc = "encoded"
  /\ ex_out' = Append(ex_out, SentenceToken_to_u8(ex_in))
  /\ ex_pc' = "done"
  /\ UNCHANGED ex_in
  /\ ExUnchanged

NextEncode == Encode \/ EncodeAgain

SpecEncode == InitEncode /\ [][NextEncode]_vars


----------------------------------------------------------------------------
(* Two texts loaded one by one and combined, and loaded as one text.       *)

MaxPart == 2

\* The lines the two texts are written from: the same word with two
\* pronunciations, another word, and comments.
PartCatalogue == {"Upper", "Again", "Mixed", "Comment", "BareSemis"}

Parts == SourcesUpTo(PartCatalogue, MaxPart)

\* t, with a line feed put at its end when it has none there.
EndedByLineFeed(t) ==
  IF t # <<>> /\ t[Len(t)] = "\n" THEN t ELSE t \o <<"\n">>

NoLoads ==
  [first |-> NoStore, second |-> NoStore, joined |-> NoStore,
   combined |-> NoStore]

InitJoin ==
  /\ LoadIdle
  /\ TkIdle
  /\ StIdle
  /\ CmIdle
  /\ CgIdle
  /\ ex_pc = "start"
  /\ ex_in \in Parts \X Parts
  /\ ex_out = NoLoads

\* load_from_str(t1) and load_from_str(t2)
LoadParts ==
  /\ ex_pc = "start"
  /\ ex_out' = [ex_out EXCEPT
                  !.first = load_from_str(RenderText(ex_in[1])),
                  !.second = load_from_str(RenderText(ex_in[2]))]
  /\ ex_pc' = "parts"
  /\ UNCHANGED ex_in
  /\ ExUnchanged

\* load_from_str of t1, a line feed, t2
LoadJoined ==
  /\ ex_pc = "parts"
  /\ ex_out' = [ex_out EXCEPT
                  !.joined =
                    load_from_str(EndedByLineFeed(RenderText(ex_in[1]))
                                    \o RenderText(ex_in[2]))]
  /\ ex_pc' = "joined"
  /\ UNCHANGED ex_in
  /\ ExUnchanged

\* first.combine(&second), for two stores that were returned
CombineParts ==
  /\ ex_pc = "joined"
  /\ ex_out.first.some /\ ex_out.second.some
  /\ ex_out' = [ex_out EXCEPT
                  !.combined = Arpabet_combine(ex_out.first, ex_out.second)]
  /\ ex_pc' = "combined"
  /\ UNCHANGED ex_in
  /\ ExUnchanged

NextJoin == LoadParts \/ LoadJoined \/ CombineParts

SpecJoin == InitJoin /\ [][NextJoin]_vars

----------------------------------------------------------------------------
(* Properties of the loader.  The lines of the input are taken from src,   *)
(* the lines the text was written from, not from the reader.               *)

NumLines == Len(src.lines)

\* The k-th physical line of the input, with its line feed when it has one.
SourceLine(k) ==
  Chars(src.lines[k])
    \o (IF k < NumLines \/ src.terminated THEN <<"\n">> ELSE <<>>)

Finished == pc = "done"

NoIoFailure == result.tag # "Io"

\* Line k is one that the rules for a single line reject.
Rejected(k) == process_line(SourceLine(k)).kind = "invalid"

SomeRejected == \E k \in 1..NumLines : Rejected(k)

FirstRejected ==
  CHOOSE k \in 1..NumLines : Rejected(k) /\ \A j \in 1..(k - 1) : ~Rejected(j)

\* Line k was written as WORD, whitespace, tokens.
EntryLine(k) == Describe(src.lines[k]).kind = "entry"

KeyOf(k) == to_lowercase(Describe(src.lines[k]).word)

TokensOf(k) == Describe(src.lines[k]).toks

UpperTokens(k) == [i \in 1..Len(TokensOf(k)) |-> to_uppercase(TokensOf(k)[i])]

LastForWord(k) ==
  \A j \in (k + 1)..NumLines : EntryLine(j) => KeyOf(j) # KeyOf(k)

\* C1: when a load succeeds, for every line WORD T1 ... Tn of the text that
\* is the last one for its word, get_polyphone_str of the lower-cased word
\* is present and is the sequence of the upper-cased tokens T1 ... Tn, in
\* the order of the line.
C1_RoundTrip ==
  Finished /\ result.tag = "Ok" =>
    \A k \in 1..NumLines :
      EntryLine(k) /\ LastForWord(k) =>
        get_polyphone_str(arpabet, KeyOf(k))
          = [present |-> TRUE, value |-> UpperTokens(k)]

C1_Witness ==
  /\ Finished /\ result.tag = "Ok"
  /\ src.lines = <<"Upper", "Mixed", "Again">>
  /\ get_polyphone_str(arpabet, <<"t", "e", "s", "t">>).value
       = << <<"T">>, <<"A", "H", "0">>, <<"S">>, <<"T">> >>
  /\ get_polyphone_str(arpabet, <<"o", "-", "y">>).value
       = << <<"O", "Y", "2">>, <<"T">> >>

\* C2: when a load fails with InvalidFormat, line_number is the position,
\* counted from 1 over all physical lines (comment lines too), of the first
\* line that is rejected, and text is that line as it was read.
C2_ErrorPosition ==
  Finished /\ result.tag = "InvalidFormat" =>
    /\ SomeRejected
    /\ result.line_number = FirstRejected
    /\ result.text = SourceLine(result.line_number)

C2_Witness ==
  /\ Finished
  /\ src = [lines |-> <<"Comment", "Upper", "WordOnly">>, terminated |-> FALSE]
  /\ result = ErrInvalidFormat(3, <<"W", "A", "T", " ", " ", " ", " ">>)

\* C3: a load of a text with a rejected line fails with InvalidFormat for
\* the first such line (unless reading the file itself fails), whatever the
\* other lines are; it returns no store, and a store is returned by Ok alone.
C3_FailFast ==
  /\ result.tag # "Ok" => arpabet = NoStore
  /\ Finished /\ NoIoFailure /\ SomeRejected =>
       /\ result.tag = "InvalidFormat"
       /\ result.line_number = FirstRejected

C3_Witness ==
  /\ Finished
  /\ src.lines = <<"Upper", "BadToken", "Mixed">>
  /\ result.tag = "InvalidFormat" /\ result.line_number = 2
  /\ DOMAIN map # {}
  /\ arpabet = NoStore

\* A comment line: ;;; and then a whitespace character.
IsCommentLine(l) ==
  /\ Len(l) >= 4
  /\ SubSeq(l, 1, 3) = <<";", ";", ";">>
  /\ l[4] \in SpaceChars

\* C4: a store returned by a load has at least one entry, and a load of a
\* text with no lines, or with comment lines only, fails with EmptyFile
\* (unless reading the file itself fails).
C4_NeverEmptyStore ==
  Finished =>
    /\ result.tag = "Ok" => arpabet.some /\ DOMAIN arpabet.dictionary # {}
    /\ NoIoFailure /\ (\A k \in 1..NumLines : IsCommentLine(SourceLine(k)))
         => result = ErrEmptyFile

C4_Witness ==
  /\ Finished
  /\ src = [lines |-> <<"Comment", "BareSemis">>, terminated |-> TRUE]
  /\ result = ErrEmptyFile
  /\ line_count = 3

\* A line of nothing but whitespace (its line feed included).
IsBlankLine(l) == \A i \in 1..Len(l) : l[i] \in SpaceChars

OnlyBlankOrComment ==
  \A k \in 1..NumLines : IsBlankLine(SourceLine(k)) \/ IsCommentLine(SourceLine(k))

SomeBlank == \E k \in 1..NumLines : IsBlankLine(SourceLine(k))

FirstBlank ==
  CHOOSE k \in 1..NumLines :
    IsBlankLine(SourceLine(k)) /\ \A j \in 1..(k - 1) : ~IsBlankLine(SourceLine(j))

Accepted == {k \in 1..NumLines : process_line(SourceLine(k)).kind = "entry"}

\* C6: when a word occurs on several accepted lines, no error results; the
\* store returned holds the words of the accepted lines and no others, and
\* each word has the phonemes of the last line that has it.
C6_LastOneWins ==
  /\ Finished /\ result.tag = "Ok" =>
       /\ DOMAIN arpabet.dictionary
            = {process_line(SourceLine(k)).word : k \in Accepted}
       /\ \A k \in Accepted :
            (\A j \in Accepted :
               j > k => process_line(SourceLine(j)).word
                          # process_line(SourceLine(k)).word)
            => get_polyphone(arpabet, process_line(SourceLine(k)).word)
                 = [present |-> TRUE,
                    value |-> process_line(SourceLine(k)).phonemes]
  /\ Finished /\ NoIoFailure /\ ~SomeRejected /\ Accepted # {} =>
       result.tag = "Ok"

C6_Witness ==
  /\ Finished /\ result.tag = "Ok"
  /\ src.lines = <<"Upper", "Lower", "Again">>
  /\ Cardinality(DOMAIN arpabet.dictionary) = 1
  /\ get_polyphone(arpabet, <<"t", "e", "s", "t">>).value
       = << <<"Consonant", "T">>, <<"Vowel", "AH", "NoStress">>,
            <<"Consonant", "S">>, <<"Consonant", "T">> >>

\* C7: the letter case of a line does not matter: the keys of a returned
\* store are lower case, the phonemes stored for a line are those of its
\* upper-cased tokens, and every line is treated as the same line written
\* in upper case is, up to the case of the key.
C7_CaseNormalized ==
  Finished =>
    /\ \A k \in 1..NumLines :
         process_line(SourceLine(k)) = process_line(to_uppercase(SourceLine(k)))
    /\ result.tag = "Ok" =>
         /\ \A w \in DOMAIN arpabet.dictionary : w = to_lowercase(w)
         /\ \A k \in 1..NumLines :
              EntryLine(k) /\ LastForWord(k) =>
                /\ KeyOf(k) \in DOMAIN arpabet.dictionary
                /\ arpabet.dictionary[KeyOf(k)]
                     = [i \in 1..Len(UpperTokens(k)) |->
                          PHONEME_MAP[UpperTokens(k)[i]]]

C7_Witness ==
  /\ Finished /\ result.tag = "Ok"
  /\ src.lines = <<"Lower">>
  /\ arpabet.dictionary
       = (<<"t", "e", "s", "t">> :>
            << <<"Consonant", "T">>, <<"Vowel", "EH", "PrimaryStress">>,
               <<"Consonant", "S">>, <<"Consonant", "T">> >>)

\* Line k was written with a token that, upper-cased, is no key of
\* PHONEME_MAP.
HasUnknownToken(k) ==
  /\ EntryLine(k)
  /\ \E i \in 1..Len(TokensOf(k)) : UpperTokens(k)[i] \notin DOMAIN PHONEME_MAP

\* C8: a load of a text with a line that has an unknown token fails with
\* InvalidFormat (unless reading the file itself fails) and returns no
\* store; when no line before it is rejected, the error carries the number
\* and the text of that line.
C8_UnknownToken ==
  Finished /\ NoIoFailure =>
    \A k \in 1..NumLines :
      HasUnknownToken(k) =>
        /\ result.tag = "InvalidFormat"
        /\ ~arpabet.some
        /\ (\A j \in 1..(k - 1) : ~Rejected(j))
             => result = ErrInvalidFormat(k, SourceLine(k))

C8_Witness ==
  /\ Finished
  /\ src = [lines |-> <<"Upper", "BadToken">>, terminated |-> TRUE]
  /\ result = ErrInvalidFormat(2, Chars("BadToken") \o <<"\n">>)
  /\ DOMAIN map = {<<"t", "e", "s", "t">>}
  /\ arpabet = NoStore

\* Line k was written with whitespace after its last token.
HasTrailingWhitespace(k) ==
  src.lines[k] \in {"TrailingSpace", "TrailingTab", "TrailingCr"}

\* Line k without the whitespace after its last token.
Trimmed(k) ==
  Render([Describe(src.lines[k]) EXCEPT !.trail = <<>>])
    \o (IF k < NumLines \/ src.terminated THEN <<"\n">> ELSE <<>>)

\* C9, as claimed: a line with whitespace after its last token is accepted,
\* and yields the entry of the same line without that whitespace.
C9_TrailingWhitespaceAccepted ==
  Finished /\ NoIoFailure =>
    \A k \in 1..NumLines :
      HasTrailingWhitespace(k) =>
        /\ ~(result.tag = "InvalidFormat" /\ result.line_number = k)
        /\ process_line(SourceLine(k)) = process_line(Trimmed(k))

----------------------------------------------------------------------------
(* Properties of the symbol table.                                         *)

\* C10: PHONEME_MAP has 107 keys and is the inverse of to_str: try_from of
\* the to_str form of each of the 31 consonants and 76 vowels is that same
\* phoneme, and to_str of the phoneme of each key is that key.
C10_TableInverse ==
  /\ Cardinality(DOMAIN PHONEME_MAP) = 107
  /\ Cardinality(Range(ALL_CONSONANTS)) = 31
  /\ Cardinality(Range(ALL_VOWELS)) = 76
  /\ \A p \in Range(ALL_CONSONANTS) : p[1] = "Consonant"
  /\ \A p \in Range(ALL_VOWELS) : p[1] = "Vowel"
  /\ \A key \in DOMAIN PHONEME_MAP : Phoneme_to_str(PHONEME_MAP[key]) = key
  /\ tk_pc = "done" => tk_result = OkPhoneme(tk_phoneme)

C10_Witness ==
  /\ tk_pc = "done"
  /\ tk_phoneme = <<"Vowel", "AXR", "SecondaryStress">>
  /\ tk_str = <<"A", "X", "R", "2">>
  /\ tk_result = OkPhoneme(<<"Vowel", "AXR", "SecondaryStress">>)

----------------------------------------------------------------------------
(* Properties of Phoneme::try_from on arbitrary tokens.                    *)

\* C11: Phoneme::try_from(token) is Ok exactly when the token is, character
\* for character, one of the 107 upper-case keys of the table, and then
\* yields the phoneme whose to_str form is the token; for every other
\* string (a lower-case or capitalised spelling of a key, the empty string)
\* it is the StringParseError whose description quotes the token, and
\* there is no third outcome.
C11_TryFromExact ==
  /\ Cardinality(TableKeys) = 107
  /\ \A k \in TableKeys : to_uppercase(k) = k
  /\ tk_pc = "parsed" =>
       /\ tk_result.tag \in {"Ok", "StringParseError"}
       /\ tk_result.tag = "Ok" <=> tk_str \in TableKeys
       /\ tk_result.tag = "Ok" =>
            /\ tk_result.phoneme \in AllPhonemes
            /\ Phoneme_to_str(tk_result.phoneme) = tk_str
       /\ tk_result.tag = "StringParseError" =>
            /\ Len(tk_result.description) = Len(NotAPhoneme) + Len(tk_str) + 1
            /\ SubSeq(tk_result.description, Len(NotAPhoneme) + 1,
                      Len(NotAPhoneme) + Len(tk_str)) = tk_str

C11_Witness ==
  /\ tk_pc = "parsed"
  /\ tk_str = <<"a", "h", "0">>
  /\ tk_result.tag = "StringParseError"
  /\ tk_result.description =
       <<"N", "o", "t", " ", "a", " ", "p", "h", "o", "n", "e", "m", "e", ":",
         " ", "'", "a", "h", "0", "'">>

----------------------------------------------------------------------------
(* Lookups on a loaded store.                                              *)

HasUpper(w) == \E i \in 1..Len(w) : w[i] \in DOMAIN LowerOf

\* C16: get_polyphone does not normalize the word: it is present only for
\* a word that is exactly a stored key.  Every key of a store the loader
\* returns is lower-case, so on a loaded store a word with an upper-case
\* letter (ZZZZZ, or the upper-case spelling of a key) is absent.
C16_NoNormalization ==
  /\ arpabet.some =>
       \A k \in DOMAIN arpabet.dictionary : ~HasUpper(k) /\ to_lowercase(k) = k
  /\ pc = "looked" =>
       /\ st_ret.present <=> st_call.word \in DOMAIN arpabet.dictionary
       /\ st_ret.present => st_ret.value = arpabet.dictionary[st_call.word]
       /\ HasUpper(st_call.word) => st_ret = Absent

C16_Witness ==
  /\ pc = "looked"
  /\ st_call.word = <<"T", "E", "S", "T">>
  /\ st_ret = Absent
  /\ get_polyphone(arpabet, <<"t", "e", "s", "t">>).present

----------------------------------------------------------------------------
(* The values of a loaded store, and the errors of a load from a file.     *)

\* C21: every value of a store that load_from_str or load_from_file
\* returns is a non-empty sequence of phonemes; insert on that store takes
\* an empty sequence as it is, and that is then the only empty value.
C21_LoadedValuesNonEmpty ==
  /\ (pc \in {"done", "looked"} /\ arpabet.some) =>
       \A k \in DOMAIN arpabet.dictionary : Len(arpabet.dictionary[k]) >= 1
  /\ pc = "inserted" =>
       /\ get_polyphone(arpabet, st_call.word) = Present(<<>>)
       /\ st_ret = get_polyphone(st_call.a, st_call.word)
       /\ \A k \in DOMAIN arpabet.dictionary \ {st_call.word} :
             /\ Len(arpabet.dictionary[k]) >= 1
             /\ arpabet.dictionary[k] = st_call.a.dictionary[k]

C21_Witness ==
  /\ pc = "inserted"
  /\ get_polyphone(arpabet, zzzzz) = Present(<<>>)
  /\ get_polyphone(arpabet, <<"t", "e", "s", "t">>).present
  /\ Arpabet_len(arpabet) = 2

\* C22: a load ends in exactly one of Ok, EmptyFile, InvalidFormat and Io.
\* Io comes only from load_from_file and carries the error of the failed
\* open or read; with it there is no store, whatever was parsed before.
\* Ok and EmptyFile are returned only when the whole input has been read,
\* so a failed read is never taken for the end of the file.
C22_IoFailure ==
  Finished =>
    /\ result.tag \in {"Ok", "EmptyFile", "InvalidFormat", "Io"}
    /\ arpabet.some <=> result.tag = "Ok"
    /\ result.tag = "Io" =>
         /\ entry = "load_from_file"
         /\ result.cause \in {"NotFound", "InvalidData"}
         /\ result.cause = "NotFound" => (pos = 0 /\ map = EmptyMap)
         /\ arpabet = NoStore
    /\ result.tag # "Io" => result.cause = "none"
    /\ result.tag \in {"Ok", "EmptyFile"} => pos = Len(text)

C22_Witness ==
  /\ Finished
  /\ result = ErrIo("InvalidData")
  /\ DOMAIN map # {}
  /\ pos < Len(text)
  /\ arpabet = NoStore

----------------------------------------------------------------------------
(* Properties of the store.  st_call holds the stores as they were before  *)
(* the last call, so each property compares the two sides of one call.     *)

\* C12: insert(w, p) returns the value that was stored under w just before
\* the call, or absent if w was not a key; afterwards get_polyphone(w) is
\* p, and the other keys and their values are as they were.
C12_Insert ==
  st_call.op = "insert" =>
    LET w == st_call.word
        old == st_call.a
    IN  /\ st_ret = (IF w \in DOMAIN old.dictionary
                       THEN Present(old.dictionary[w]) ELSE Absent)
        /\ get_polyphone(st_a, w) = Present(st_call.polyphone)
        /\ DOMAIN st_a.dictionary \ {w} = DOMAIN old.dictionary \ {w}
        /\ \A k \in QueryWords \ {w} :
              get_polyphone(st_a, k) = get_polyphone(old, k)

C12_Witness ==
  /\ st_call.op = "insert"
  /\ st_call.word = foo
  /\ st_call.polyphone = B_AA1_R
  /\ st_ret = Present(F_UW1)
  /\ get_polyphone(st_a, foo) = Present(B_AA1_R)
  /\ get_polyphone(st_a, bar) = Present(F_UW1)

\* C13: remove(w) of a key returns its value and deletes the entry, the
\* other entries stay and len goes down by one; remove(w) of a word that
\* is not a key returns absent and changes nothing, so a second remove of
\* the same word right after the first leaves the store as the first did.
C13_Remove ==
  st_call.op = "remove" =>
    LET w == st_call.word
        old == st_call.a
    IN  /\ w \in DOMAIN old.dictionary =>
              /\ st_ret = Present(old.dictionary[w])
              /\ DOMAIN st_a.dictionary = DOMAIN old.dictionary \ {w}
              /\ \A k \in DOMAIN st_a.dictionary :
                    st_a.dictionary[k] = old.dictionary[k]
              /\ Arpabet_len(st_a) = Arpabet_len(old) - 1
        /\ w \notin DOMAIN old.dictionary =>
              /\ st_ret = Absent
              /\ st_a = old
              /\ Arpabet_len(st_a) = Arpabet_len(old)
        /\ (st_call.prev.op = "remove" /\ st_call.prev.word = w) =>
              /\ st_ret = Absent
              /\ st_a = old

C13_Witness ==
  /\ st_call.op = "remove"
  /\ st_call.word = foo
  /\ st_call.prev = [op |-> "remove", word |-> foo, present |-> TRUE]
  /\ st_ret = Absent
  /\ st_a = st_call.a
  /\ get_polyphone(st_a, bar) = Present(B_AA1_R)

\* C14: a.combine(b) returns a store whose keys are those of a and of b;
\* a key of b has b's value, a key of a alone has a's value, a word of
\* neither is absent; a and b are as they were.
C14_Combine ==
  st_call.op = "combine" =>
    LET a == st_call.a.dictionary
        b == st_call.b.dictionary
        c == st_ret.dictionary
    IN  /\ DOMAIN c = DOMAIN a \cup DOMAIN b
        /\ \A k \in DOMAIN b : c[k] = b[k]
        /\ \A k \in DOMAIN a \ DOMAIN b : c[k] = a[k]
        /\ \A w \in QueryWords :
              (w \notin DOMAIN a /\ w \notin DOMAIN b) =>
                get_polyphone(st_ret, w) = Absent
        /\ st_a = st_call.a
        /\ st_b = st_call.b

C14_Witness ==
  /\ st_call.op = "combine"
  /\ st_a.dictionary = map_insert(map_insert(EmptyMap, foo, F_UW1), bar, B_AA1_R)
  /\ st_b.dictionary = map_insert(map_insert(EmptyMap, foo, B_UW1), baz, B_AE1_Z)
  /\ get_polyphone(st_ret, foo) = Present(B_UW1)
  /\ get_polyphone(st_ret, bar) = Present(B_AA1_R)
  /\ get_polyphone(st_ret, baz) = Present(B_AE1_Z)
  /\ Arpabet_len(st_ret) = 3

\* C15: after a.merge_from(b), a is the store that combine of the old a
\* with b returns, an entry of a whose key is not in b has kept its value,
\* and b is as it was.
C15_MergeFrom ==
  st_call.op = "merge_from" =>
    /\ st_a = Arpabet_combine(st_call.a, st_call.b)
    /\ \A k \in DOMAIN st_call.a.dictionary \ DOMAIN st_call.b.dictionary :
          get_polyphone(st_a, k) = Present(st_call.a.dictionary[k])
    /\ st_b = st_call.b

C15_Witness ==
  /\ st_call.op = "merge_from"
  /\ st_call.a.dictionary =
       map_insert(map_insert(EmptyMap, foo, F_UW1), bar, B_AA1_R)
  /\ st_b.dictionary = map_insert(map_insert(EmptyMap, foo, B_UW1), baz, B_AE1_Z)
  /\ get_polyphone(st_a, foo) = Present(B_UW1)
  /\ get_polyphone(st_a, bar) = Present(B_AA1_R)
  /\ get_polyphone(st_a, baz) = Present(B_AE1_Z)

\* C17: for every word, get_polyphone, get_polyphone_ref and
\* get_polyphone_str are all present or all absent; the first two give the
\* same sequence, and the third gives the to_str form of each phoneme of
\* that sequence, in order.
C17_LookupsAgree ==
  st_call.op = "lookups" =>
    LET g == st_ret.get_polyphone
        r == st_ret.get_polyphone_ref
        t == st_ret.get_polyphone_str
    IN  /\ g.present = r.present
        /\ g.present = t.present
        /\ g.present = (st_call.word \in DOMAIN st_a.dictionary)
        /\ g = r
        /\ g.present =>
              /\ Len(t.value) = Len(g.value)
              /\ \A i \in 1..Len(g.value) :
                    t.value[i] = Phoneme_to_str(g.value[i])

C17_Witness ==
  /\ st_call.op = "lookups"
  /\ st_call.word = bar
  /\ st_ret.get_polyphone = Present(B_AA1_R)
  /\ st_ret.get_polyphone_ref = Present(B_AA1_R)
  /\ st_ret.get_polyphone_str = Present(<<<<"B">>, <<"A", "A", "1">>, <<"R">>>>)

\* C18: a store made by Arpabet::new has len 0, and after any calls of
\* insert, remove and merge_from its len is the number of words now
\* present, keys yields each of those words once and nothing else, and
\* get_polyphone of a word is present exactly when keys yields it.
C18_LenAndKeys ==
  /\ st_call.op = "new" => Arpabet_len(st_a) = 0
  /\ st_call.op # "none" =>
       /\ Arpabet_len(st_a) = Cardinality(st_present)
       /\ \A ks \in Arpabet_keys(st_a) :
             /\ Len(ks) = Cardinality(st_present)
             /\ Range(ks) = st_present
       /\ \A w \in QueryWords :
             get_polyphone(st_a, w).present <=> w \in st_present
  /\ st_call.op = "len" => st_ret = Cardinality(st_present)
  /\ st_call.op = "keys" =>
       /\ Len(st_ret) = Cardinality(st_present)
       /\ Range(st_ret) = st_present

C18_Witness ==
  /\ st_call.op = "keys"
  /\ st_call.prev.op = "remove"
  /\ st_ret = <<baz, bar>>
  /\ st_present = {bar, baz}
  /\ get_polyphone(st_a, baz) = Present(B_AE1_Z)
  /\ get_polyphone(st_a, foo) = Absent

----------------------------------------------------------------------------
(* Properties of the built-in store.                                       *)

YepStr == Present(<<<<"Y">>, <<"E", "H", "1">>, <<"P">>>>)

\* What every call of load_cmudict followed by a lookup of yep sees.
TheOneView ==
  [version |-> 1, store |-> from_phf_map(CMU_DICT), runs |-> 1, yep |-> YepStr]

\* C19: under every interleaving of calls of load_cmudict the initializer
\* is entered at most once and the cell set at most once; a call returns
\* only the complete store, the one made by that single run, so all calls
\* of all threads get the same instance, and every lookup of the same word
\* on it gives the same answer with no further run of the initializer.
C19_InitOnce ==
  /\ cm_runs <= 1
  /\ cm_writes <= 1
  /\ cm_cell.some => cm_cell = from_phf_map(CMU_DICT)
  /\ \A t \in DOMAIN cm_thread :
       /\ cm_thread[t].pc = "holding" =>
            cm_thread[t].ref = [version |-> 1, store |-> from_phf_map(CMU_DICT)]
       /\ \A i \in 1..Len(cm_thread[t].seen) : cm_thread[t].seen[i] = TheOneView

C19_Witness ==
  /\ cm_runs = 1
  /\ cm_thread[1].waited
  /\ ~cm_thread[2].waited
  /\ cm_thread[1].seen = <<TheOneView, TheOneView>>
  /\ cm_thread[2].seen = <<TheOneView, TheOneView>>

----------------------------------------------------------------------------
(* Properties of the generated table and the store made of it.             *)

yoshi == <<"y", "o", "s", "h", "i">>

Y_OW1_SH_IY0 ==
  <<<<"Consonant", "Y">>, <<"Vowel", "OW", "PrimaryStress">>,
    <<"Consonant", "SH">>, <<"Vowel", "IY", "NoStress">>>>

StressDigits == <<"0", "1", "2">>

StressSuffix(stress) ==
  CASE stress = "UnknownStress" -> <<>>
    [] stress = "NoStress" -> <<"0">>
    [] stress = "PrimaryStress" -> <<"1">>
    [] stress = "SecondaryStress" -> <<"2">>

\* C23: for every vowel, to_str is to_str_stressless followed by the suffix
\* of the vowel's stress (nothing, "0", "1" or "2"); to_str_stressless is
\* the same for every stress of a base vowel; get_stress returns the stress
\* the vowel carries, and for a known stress the suffix is the digit
\* to_i returns, to_i of the unknown stress being -1.
C23_VowelStr ==
  /\ ex_pc \in {"named", "stressed"} =>
       /\ ex_out.to_str = ex_out.to_str_stressless \o StressSuffix(ex_in[3])
       /\ ex_out.to_str_stressless = Vowel_to_str(ex_in[2], "UnknownStress")
       /\ \A w \in Range(ALL_VOWELS) :
            w[2] = ex_in[2] =>
              Vowel_to_str_stressless(w[2]) = ex_out.to_str_stressless
  /\ ex_pc = "stressed" =>
       /\ ex_out.get_stress = ex_in[3]
       /\ ex_out.to_i \in -1 .. 2
       /\ ex_out.to_i = -1 <=> ex_out.get_stress = "UnknownStress"
       /\ ex_out.to_i >= 0 =>
            ex_out.to_str =
              ex_out.to_str_stressless \o <<StressDigits[ex_out.to_i + 1]>>
       /\ ex_out.to_i = -1 => ex_out.to_str = ex_out.to_str_stressless

C23_Witness ==
  /\ ex_pc = "stressed"
  /\ ex_in = <<"Vowel", "EH", "SecondaryStress">>
  /\ ex_out.to_str = <<"E", "H", "2">>
  /\ ex_out.to_str_stressless = <<"E", "H">>
  /\ ex_out.to_i = 2

IndexIn(list, x) == CHOOSE i \in 1 .. Len(list) : list[i] = x

StressOffset(stress) ==
  CASE stress = "UnknownStress" -> 0
    [] stress = "NoStress" -> 1
    [] stress = "PrimaryStress" -> 2
    [] stress = "SecondaryStress" -> 3

Encoded == ex_pc \in {"encoded", "done"}

\* C24: a consonant encodes to its position in ALL_CONSONANTS counted from
\* one (1..31), a vowel to its position in ALL_VOWELS counted from 101
\* (101..176), the four stresses of a base vowel taking four consecutive
\* codes in the order Unknown, No, Primary, Secondary; a sentence token
\* encodes to the code of the consonant, vowel or punctuation it holds.
C24_CodesFollowLists ==
  Encoded =>
    /\ (ex_in[1] = "Phoneme" /\ ex_in[2][1] = "Consonant") =>
         /\ ex_in[2] \in Range(ALL_CONSONANTS)
         /\ ex_out[1] = (IndexIn(ALL_CONSONANTS, ex_in[2]) - 1) + 1
         /\ ex_out[1] = Consonant_to_u8(ex_in[2][2])
         /\ ex_out[1] \in 1 .. 31
    /\ (ex_in[1] = "Phoneme" /\ ex_in[2][1] = "Vowel") =>
         /\ ex_in[2] \in Range(ALL_VOWELS)
         /\ ex_out[1] = (IndexIn(ALL_VOWELS, ex_in[2]) - 1) + 101
         /\ ex_out[1] = Vowel_to_u8(ex_in[2][2], ex_in[2][3])
         /\ ex_out[1] \in 101 .. 176
         /\ ex_out[1] =
              Vowel_to_u8(ex_in[2][2], "UnknownStress")
                + StressOffset(ex_in[2][3])
         /\ (Vowel_to_u8(ex_in[2][2], "UnknownStress") - 101) % 4 = 0
    /\ ex_in[1] = "Punctuation" =>
         ex_out[1] = Punctuation_to_u8(ex_in[2])
    /\ ex_pc = "done" => ex_out[2] = ex_out[1]

C24_Witness ==
  /\ ex_pc = "done"
  /\ ex_in = SentenceToken_Phoneme(<<"Vowel", "AA", "PrimaryStress">>)
  /\ ex_out = <<103, 103>>

\* The value the conversion's match arm names, before it is stored in a u8.
ArmValue(sentence_token) ==
  IF sentence_token[1] = "Phoneme"
  THEN IF sentence_token[2][1] = "Consonant"
       THEN Consonant_to_u8(sentence_token[2][2])
       ELSE Vowel_to_u8(sentence_token[2][2], sentence_token[2][3])
  ELSE Punctuation_to_u8(sentence_token[2])

CodesOf(tokens) == {SentenceToken_to_u8(t) : t \in tokens}

\* C30: the encoding is injective and free of overflow: no other sentence
\* token has the code of the one encoded; the code is the value its match
\* arm names, within u8; it lies in 1..254, never 0 or 255; consonants take
\* exactly 1..31, vowels exactly 101..176, punctuation exactly 201..209 and
\* 254.
C30_CodesDistinct ==
  Encoded =>
    /\ \A t \in SentenceTokens :
         SentenceToken_to_u8(t) = ex_out[1] => t = ex_in
    /\ ex_out[1] \in U8
    /\ ex_out[1] = ArmValue(ex_in)
    /\ ex_out[1] \in 1 .. 254
    /\ ex_out[1] \notin {0, 255}
    /\ CodesOf({SentenceToken_Phoneme(p) : p \in Range(ALL_CONSONANTS)})
         = 1 .. 31
    /\ CodesOf({SentenceToken_Phoneme(p) : p \in Range(ALL_VOWELS)})
         = 101 .. 176
    /\ CodesOf({SentenceToken_Punctuation(p) : p \in Range(ALL_PUNCTUATION)})
         = (201 .. 209) \cup {254}
    /\ Cardinality(SentenceTokens) = 31 + 76 + 10
    /\ Cardinality(CodesOf(SentenceTokens)) = Cardinality(SentenceTokens)

C30_Witness ==
  /\ ex_pc = "encoded"
  /\ ex_in = SentenceToken_Punctuation(<<"Punctuation", "EndToken">>)
  /\ ex_out = <<254>>

\* The offset in the text just after line k.
RECURSIVE EndOf(_)
EndOf(k) == IF k = 0 THEN 0 ELSE EndOf(k - 1) + Len(SourceLine(k))

\* The lines the loop has gone over when the reader stands at pos.
LinesRead == {k \in 1..NumLines : EndOf(k) <= pos}

StartsWithSemis(l) == Len(l) >= 3 /\ SubSeq(l, 1, 3) = <<";", ";", ";">>

\* C25: a line is skipped as a comment exactly when it begins with ;;; and
\* then a whitespace character, its own line feed counting as one; going
\* over a skipped line moves the line counter by one, adds no entry and
\* raises no error; a line that begins with ;;; and then a character that
\* is no whitespace, or ;;; alone at the end of a text without a line feed,
\* is no comment and is rejected with InvalidFormat.
C25_CommentLines ==
  /\ Finished => \A k \in 1..NumLines :
       /\ process_line(SourceLine(k)).kind = "comment"
            <=> IsCommentLine(SourceLine(k))
       /\ StartsWithSemis(SourceLine(k)) /\ ~IsCommentLine(SourceLine(k))
            => Rejected(k)
  /\ pc \in {"read", "check"} =>
       /\ line_count = 1 + Cardinality(LinesRead)
       /\ DOMAIN map =
            {l.word : l \in {x \in {process_line(SourceLine(k)) : k \in LinesRead} :
                                x.kind = "entry"}}
       /\ result = NoResult
  /\ Finished /\ result.tag = "InvalidFormat" =>
       /\ ~IsCommentLine(result.text)
       /\ line_count = result.line_number
  /\ Finished /\ NoIoFailure =>
       \A k \in 1..NumLines :
         /\ StartsWithSemis(SourceLine(k))
         /\ ~IsCommentLine(SourceLine(k))
         /\ \A j \in 1..(k - 1) : ~Rejected(j)
         => result = ErrInvalidFormat(k, SourceLine(k))

C25_Witness ==
  /\ Finished
  /\ src = [lines |-> <<"BareSemis", "CommentTab", "SemisWord">>,
            terminated |-> TRUE]
  /\ result = ErrInvalidFormat(3, <<";", ";", ";", "c", "\n">>)
  /\ line_count = 3
  /\ map = EmptyMap

\* Line k was written as WORD, whitespace, tokens that are all symbols of
\* the table, with something other than one space between the tokens.
BadlySeparated(k) ==
  LET d == Describe(src.lines[k]) IN
    /\ d.kind = "entry"
    /\ Len(d.toks) >= 2
    /\ \A i \in 1..Len(d.toks) : PHONEME_MAP_get(to_uppercase(d.toks[i])).present
    /\ d.tsep # OneSpace
    /\ d.tsep # <<>>
    /\ \A i \in 1..Len(d.tsep) : d.tsep[i] \in {" ", "\t"}

WellSeparated(k) == [Describe(src.lines[k]) EXCEPT !.tsep = OneSpace]

\* C26: a line whose tokens, each one a symbol of the table, are separated
\* by two or more spaces or by a tab yields no entry, though the same line
\* with single spaces would; the load fails with InvalidFormat for that
\* line when no line before it is rejected.
C26_SingleSpaceBetweenTokens ==
  /\ Finished => \A k \in 1..NumLines :
       BadlySeparated(k) =>
         /\ Rejected(k)
         /\ process_line(Render(WellSeparated(k)) \o <<"\n">>).kind = "entry"
  /\ Finished /\ NoIoFailure =>
       \A k \in 1..NumLines :
         BadlySeparated(k) /\ (\A j \in 1..(k - 1) : ~Rejected(j))
           => /\ result = ErrInvalidFormat(k, SourceLine(k))
              /\ arpabet = NoStore
  /\ Finished /\ result.tag = "Ok" => \A k \in 1..NumLines : ~BadlySeparated(k)

C26_Witness ==
  /\ Finished
  /\ src = [lines |-> <<"Upper", "Comment", "TabGap">>, terminated |-> TRUE]
  /\ result.tag = "InvalidFormat"
  /\ result.line_number = 3
  /\ result.text = Chars("TabGap") \o <<"\n">>
  /\ DOMAIN map = {<<"t", "e", "s", "t">>}

\* A word and then nothing but whitespace.
WordThenSpace(l) ==
  /\ l # <<>>
  /\ IsWordChar(l[1])
  /\ \E i \in 2..Len(l) : IsSpace(l[i])
  /\ \A i \in 1..Len(l) :
       IsSpace(l[i]) => \A j \in i..Len(l) : IsSpace(l[j])
  /\ \A i \in 1..Len(l) : IsWordChar(l[i]) \/ IsSpace(l[i])

\* C27: the list of tokens split from the captured phoneme text is never
\* empty, so no line is rejected by the check of phoneme_tokens.is_empty();
\* a word followed by whitespace only is rejected by the failed match of
\* the line pattern, and every InvalidFormat comes from a failed match or
\* from a token that is not in the table.
C27_TokenListNeverEmpty ==
  /\ Finished => \A k \in 1..NumLines :
       LET caps == FILE_REGEX_captures(SourceLine(k)) IN
         /\ caps.matched => caps.g2 # <<>> /\ Len(split(caps.g2)) >= 1
         /\ process_line(SourceLine(k)).branch # "no_tokens"
         /\ WordThenSpace(SourceLine(k)) =>
              ~caps.matched /\ process_line(SourceLine(k)).branch = "pattern"
  /\ Finished /\ result.tag = "InvalidFormat" =>
       process_line(result.text).branch \in {"pattern", "token"}

C27_Witness ==
  /\ Finished
  /\ src = [lines |-> <<"Upper", "WordOnly">>, terminated |-> TRUE]
  /\ result = ErrInvalidFormat(2, <<"W", "A", "T", " ", " ", " ", " ", "\n">>)
  /\ ~FILE_REGEX_captures(result.text).matched
  /\ process_line(result.text).branch = "pattern"

\* C28: the text of InvalidFormat is the buffer as read_line filled it for
\* the rejected line: the characters of the line with the line feed that
\* ends it, a carriage return before it included, when the line is ended
\* by one, and the characters of the line alone only when it is the last
\* line of a text with no line feed at its end.
C28_TextIsBuffer ==
  Finished /\ result.tag = "InvalidFormat" =>
    LET k == result.line_number IN
      /\ k \in 1..NumLines
      /\ pos = EndOf(k - 1)
      /\ result.text = read_line(text, pos)
      /\ result.text = SubSeq(text, EndOf(k - 1) + 1, EndOf(k))
      /\ (k < NumLines \/ src.terminated) =>
           /\ result.text = Chars(src.lines[k]) \o <<"\n">>
           /\ result.text[Len(result.text)] = "\n"
      /\ (result.text = Chars(src.lines[k]))
           <=> (k = NumLines /\ ~src.terminated)
      /\ \A i \in 1..(Len(result.text) - 1) : result.text[i] # "\n"

C28_Witness ==
  /\ Finished
  /\ src = [lines |-> <<"Comment", "TrailingCr", "Upper">>,
            terminated |-> FALSE]
  /\ result =
       ErrInvalidFormat(2, Chars("Upper") \o <<"\r", "\n">>)

\* C29: when two texts each load, the text made of the first, ended by one
\* line feed, and the second loads too, and its store is the store of the
\* first combined with the store of the second: a word of the second text
\* has the phonemes the second text gives it, any other word those the
\* first text gives it.
C29_JoinIsCombine ==
  /\ (ex_pc \in {"joined", "combined"}
        /\ ex_out.first.some /\ ex_out.second.some) => ex_out.joined.some
  /\ ex_pc = "combined" =>
       /\ ex_out.joined = ex_out.combined
       /\ ex_out.joined = Arpabet_combine(ex_out.first, ex_out.second)
       /\ DOMAIN ex_out.joined.dictionary
            = DOMAIN ex_out.first.dictionary
                \cup DOMAIN ex_out.second.dictionary
       /\ \A w \in DOMAIN ex_out.second.dictionary :
            get_polyphone(ex_out.joined, w) = get_polyphone(ex_out.second, w)
       /\ \A w \in DOMAIN ex_out.first.dictionary
                     \ DOMAIN ex_out.second.dictionary :
            get_polyphone(ex_out.joined, w) = get_polyphone(ex_out.first, w)

C29_Witness ==
  /\ ex_pc = "combined"
  /\ ex_in = << [lines |-> <<"Upper", "Mixed">>, terminated |-> FALSE],
               [lines |-> <<"Comment", "Again">>, terminated |-> TRUE] >>
  /\ Arpabet_len(ex_out.joined) = 2
  /\ get_polyphone(ex_out.first, <<"t", "e", "s", "t">>)
       # get_polyphone(ex_out.second, <<"t", "e", "s", "t">>)
  /\ get_polyphone(ex_out.joined, <<"t", "e", "s", "t">>)
       = get_polyphone(ex_out.second, <<"t", "e", "s", "t">>)

----------------------------------------------------------------------------
Init ==
  InitLoad \/ InitLines \/ InitTable \/ InitToken \/ InitStore \/ InitCmudict
    \/ InitCodegen \/ InitVowel \/ InitEncode \/ InitJoin

Next ==
  NextLoad \/ NextTable \/ NextToken \/ NextStore \/ NextCmudict
    \/ NextCodegen \/ NextVowel \/ NextEncode \/ NextJoin

Spec == Init /\ [][Next]_vars

=============================================================================
